---- MODULE Spec2Model ----
(***************************************************************************)
(* Request pipeline of the FastAPI boilerplate: TrailingSlashMiddleware,   *)
(* RequestResponseLoggingMiddleware and AuthMiddleware as assembled in     *)
(* main.py, with the path matcher, the exclusion lists, the body capture   *)
(* and the masking they share.                                             *)
(*                                                                         *)
(* Strings the code inspects character by character (paths, patterns, the  *)
(* Authorization header) are sequences of one-character strings.  Body     *)
(* text is a sequence of lexical tokens.                                   *)
(***************************************************************************)
EXTENDS Integers, Sequences, FiniteSets, TLC

(***************************************************************************)
(* Python string primitives used by the middlewares.                       *)
(***************************************************************************)

\* str.startswith
StartsWith(s, p) ==
    /\ Len(p) <= Len(s)
    /\ SubSeq(s, 1, Len(p)) = p

\* str.endswith
EndsWith(s, p) ==
    /\ Len(p) <= Len(s)
    /\ SubSeq(s, Len(s) - Len(p) + 1, Len(s)) = p

\* s[n:]
DropPrefix(s, n) == SubSeq(s, n + 1, Len(s))

\* str.find + 1: the position of the first occurrence of sub in s, 0 if none
IndexOf(sub, s) ==
    LET hits == {i \in 1..(Len(s) - Len(sub) + 1) : SubSeq(s, i, i + Len(sub) - 1) = sub}
    IN  IF hits = {} THEN 0 ELSE CHOOSE i \in hits : \A j \in hits : i <= j

\* sub in s
Contains(sub, s) == IndexOf(sub, s) # 0

\* s.split(sep)[0]: the text before the first occurrence of sep
BeforeFirst(sep, s) ==
    IF Contains(sep, s) THEN SubSeq(s, 1, IndexOf(sep, s) - 1) ELSE s

\* s.split(c) for a one-character separator c
RECURSIVE Split(_, _)
Split(s, c) ==
    LET i == IndexOf(<<c>>, s)
    IN  IF i = 0 THEN <<s>>
        ELSE <<SubSeq(s, 1, i - 1)>> \o Split(SubSeq(s, i + 1, Len(s)), c)

\* s.rstrip(c)
RECURSIVE RStrip(_, _)
RStrip(s, c) ==
    IF Len(s) > 0 /\ s[Len(s)] = c THEN RStrip(SubSeq(s, 1, Len(s) - 1), c) ELSE s

\* list.pop() of a trailing '' element
PopTrailingEmpty(segs) ==
    IF Len(segs) > 0 /\ segs[Len(segs)] = <<>> THEN SubSeq(segs, 1, Len(segs) - 1) ELSE segs

Slash == "/"
Star == "*"
RecursiveWildcard == <<"/", "*", "*">>
SingleWildcard == <<"/", "*">>

\* path_match taking every path that begins with the text before '/**'
path_match_PrefixOnly(path, pattern) ==
    IF Contains(RecursiveWildcard, pattern) THEN
        StartsWith(path, BeforeFirst(RecursiveWildcard, pattern))
    ELSE IF Contains(SingleWildcard, pattern) THEN
        IF path # <<Slash>> /\ EndsWith(path, <<Slash>>) THEN FALSE
        ELSE
            LET pattern_segments == PopTrailingEmpty(Split(pattern, Slash))
                path_segments == PopTrailingEmpty(Split(path, Slash))
            IN  /\ Len(pattern_segments) = Len(path_segments)
                /\ \A i \in 1..Len(pattern_segments) :
                      \/ pattern_segments[i] = <<Star>>
                      \/ pattern_segments[i] = path_segments[i]
    ELSE path = pattern

\* path_match without the early return for a path ending in '/'
path_match_NoTrailingSlashRule(path, pattern) ==
    IF Contains(RecursiveWildcard, pattern) THEN
        LET base_path == BeforeFirst(RecursiveWildcard, pattern)
        IN  path = base_path \/ StartsWith(path, base_path \o <<Slash>>)
    ELSE IF Contains(SingleWildcard, pattern) THEN
        LET pattern_segments == PopTrailingEmpty(Split(pattern, Slash))
            path_segments == PopTrailingEmpty(Split(path, Slash))
        IN  /\ Len(pattern_segments) = Len(path_segments)
            /\ \A i \in 1..Len(pattern_segments) :
                  \/ pattern_segments[i] = <<Star>>
                  \/ pattern_segments[i] = path_segments[i]
    ELSE path = pattern

\* path_match trying the '/*' rule before the '/**' rule
path_match_SingleRuleFirst(path, pattern) ==
    IF Contains(SingleWildcard, pattern) THEN
        IF path # <<Slash>> /\ EndsWith(path, <<Slash>>) THEN FALSE
        ELSE
            LET pattern_segments == PopTrailingEmpty(Split(pattern, Slash))
                path_segments == PopTrailingEmpty(Split(path, Slash))
            IN  /\ Len(pattern_segments) = Len(path_segments)
                /\ \A i \in 1..Len(pattern_segments) :
                      \/ pattern_segments[i] = <<Star>>
                      \/ pattern_segments[i] = path_segments[i]
    ELSE IF Contains(RecursiveWildcard, pattern) THEN
        LET base_path == BeforeFirst(RecursiveWildcard, pattern)
        IN  path = base_path \/ StartsWith(path, base_path \o <<Slash>>)
    ELSE path = pattern

(***************************************************************************)
(* AuthMiddleware.path_match (and its copy in the logging middleware).     *)
(***************************************************************************)
path_match(path, pattern) ==
    IF Contains(RecursiveWildcard, pattern) THEN
        LET base_path == BeforeFirst(RecursiveWildcard, pattern)
        IN  path = base_path \/ StartsWith(path, base_path \o <<Slash>>)
    ELSE IF Contains(SingleWildcard, pattern) THEN
        IF path # <<Slash>> /\ EndsWith(path, <<Slash>>) THEN FALSE
        ELSE
            LET pattern_segments == PopTrailingEmpty(Split(pattern, Slash))
                path_segments == PopTrailingEmpty(Split(path, Slash))
            IN  /\ Len(pattern_segments) = Len(path_segments)
                /\ \A i \in 1..Len(pattern_segments) :
                      \/ pattern_segments[i] = <<Star>>
                      \/ pattern_segments[i] = path_segments[i]
    ELSE path = pattern

\* an exclusion test that looks at the first entry of each list only
IsExcluded_FirstOnly(path, additional_exclude_paths, exclude_patterns) ==
    \/ /\ additional_exclude_paths # <<>>
       /\ StartsWith(path, additional_exclude_paths[1])
    \/ /\ exclude_patterns # <<>>
       /\ path_match(path, exclude_patterns[1])

\* is_path_excluded_apikey / is_path_excluded_jwt / is_path_excluded:
\* the additional prefixes first, then the configured patterns
IsExcluded(path, additional_exclude_paths, exclude_patterns) ==
    \/ \E i \in 1..Len(additional_exclude_paths) :
          StartsWith(path, additional_exclude_paths[i])
    \/ \E i \in 1..Len(exclude_patterns) :
          path_match(path, exclude_patterns[i])

(***************************************************************************)
(* Paths, patterns and credentials the requests and the configuration are  *)
(* drawn from.                                                             *)
(***************************************************************************)
PathRoot == <<"/">>
PathHealth == <<"/", "h", "e", "a", "l", "t", "h">>
PathHealthSlash == PathHealth \o <<"/">>
PathApiUsers == <<"/", "a", "p", "i", "/", "u", "s", "e", "r", "s">>
PathApiUsersSlash == PathApiUsers \o <<"/">>
PathUpload == <<"/", "u", "p", "l", "o", "a", "d", "/", "a", ".", "t", "x", "t">>
PathMetrics == <<"/", "m", "e", "t", "r", "i", "c", "s">>

PatHealthAll == PathHealth \o RecursiveWildcard
PatMetrics == PathMetrics
PatApiAny == <<"/", "a", "p", "i", "/", "*">>

\* yaml_config.ApiKeyAuthConfig.prefix
ApiKeyPrefix == <<"A", "p", "i", "K", "e", "y", " ">>
\* the literal of AuthMiddleware.dispatch
BearerPrefix == <<"B", "e", "a", "r", "e", "r", " ">>
BasicPrefix == <<"B", "a", "s", "i", "c", " ">>

\* the value of the API_KEY environment variable, and another key
KeyConfigured == <<"k", "1">>
\* no API_KEY in the environment (None, or the empty string: both are falsy)
KeyUnset == <<>>

\* tokens: one the verifier accepts, one signed and unexpired but without
\* a subject, one expired, one with a bad signature
TokenGood == <<"t", "g">>
TokenNoSub == <<"t", "n">>

\* Python None where a string is expected
NoneValue == <<"<None>">>

\* jose.jwt.decode as get_token_data calls it: the payload, or JWTError
jwt_decode(token) ==
    IF token = TokenGood THEN [ok |-> TRUE, payload |-> [sub |-> <<"admin">>]]
    ELSE IF token = TokenNoSub THEN [ok |-> TRUE, payload |-> [sub |-> NoneValue]]
    ELSE [ok |-> FALSE, payload |-> [sub |-> NoneValue]]

\* get_token_data without its check of the subject
get_token_data_NoSubjectCheck(token) ==
    LET decoded == jwt_decode(token)
    IN  [ok |-> decoded.ok, payload |-> decoded.payload]

\* app.core.auth.get_token_data: the payload, or HTTPException(401)
get_token_data(token) ==
    LET decoded == jwt_decode(token)
    IN  IF decoded.ok
        THEN IF decoded.payload.sub = NoneValue
             THEN [ok |-> FALSE, payload |-> decoded.payload]
             ELSE [ok |-> TRUE, payload |-> decoded.payload]
        ELSE [ok |-> FALSE, payload |-> decoded.payload]

(***************************************************************************)
(* AuthMiddleware                                                          *)
(***************************************************************************)

\* __init__ without the check of the configured key
AuthMiddlewareInit_KeepsFlag(api, exclude_paths) ==
    [ additional_exclude_paths |-> exclude_paths,
      api_key_settings |-> api.api_key,
      jwt_settings |-> api.jwt,
      api_key_enabled |-> api.api_key.enabled,
      jwt_enabled |-> api.jwt.enabled ]

\* AuthMiddleware.__init__: the API-key scheme is switched off when no key
\* value is configured
AuthMiddlewareInit(api, exclude_paths) ==
    [ additional_exclude_paths |-> exclude_paths,
      api_key_settings |-> api.api_key,
      jwt_settings |-> api.jwt,
      api_key_enabled |-> api.api_key.enabled /\ api.api_key.api_key # KeyUnset,
      jwt_enabled |-> api.jwt.enabled ]

is_path_excluded_apikey(self, path) ==
    IsExcluded(path, self.additional_exclude_paths, self.api_key_settings.exclude_patterns)

is_path_excluded_jwt(self, path) ==
    IsExcluded(path, self.additional_exclude_paths, self.jwt_settings.exclude_patterns)

\* the outcomes of one dispatch: call_next, or a 401 JSONResponse
Forward(user, token_data, verified) ==
    [ forward |-> TRUE, status |-> 0, www_authenticate |-> FALSE, detail |-> "",
      user |-> user, token_data |-> token_data, verified |-> verified ]

Reject(detail, www, verified) ==
    [ forward |-> FALSE, status |-> 401, www_authenticate |-> www, detail |-> detail,
      user |-> <<>>, token_data |-> <<>>, verified |-> verified ]

\* "not authorization": the header is missing or empty
Falsy(authorization) == ~authorization.present \/ authorization.value = <<>>

\* the API-key test without the exclusion list
ApiKeyApplies_IgnoringExclusion(self, path, authorization) ==
    /\ self.api_key_enabled
    /\ StartsWith(authorization.value, self.api_key_settings.prefix)

\* the test of the API-key block: the scheme is on, the path is not excluded
\* for it and the header starts with the configured prefix
ApiKeyApplies(self, path, authorization) ==
    /\ self.api_key_enabled
    /\ ~is_path_excluded_apikey(self, path)
    /\ StartsWith(authorization.value, self.api_key_settings.prefix)

\* the test of the JWT block
JwtApplies(self, path, authorization) ==
    /\ self.jwt_enabled
    /\ ~is_path_excluded_jwt(self, path)
    /\ StartsWith(authorization.value, BearerPrefix)

\* the two checks for a missing header in the other order
MissingCredential_JwtFirst(self, path) ==
    IF self.jwt_enabled /\ ~is_path_excluded_jwt(self, path)
    THEN Reject("credential required", TRUE, 0)
    ELSE IF self.api_key_enabled /\ ~is_path_excluded_apikey(self, path)
    THEN Reject("credential required", FALSE, 0)
    ELSE Forward(<<>>, <<>>, 0)

\* dispatch without an Authorization header
MissingCredential(self, path) ==
    IF self.api_key_enabled /\ ~is_path_excluded_apikey(self, path)
    THEN Reject("credential required", FALSE, 0)
    ELSE IF self.jwt_enabled /\ ~is_path_excluded_jwt(self, path)
    THEN Reject("credential required", TRUE, 0)
    ELSE Forward(<<>>, <<>>, 0)

\* the API-key block comparing the whole header, prefix included
ApiKeyBranch_WholeHeader(self, authorization) ==
    IF authorization.value = self.api_key_settings.api_key
    THEN Forward(<<>>, <<>>, 0)
    ELSE Reject("invalid key", FALSE, 0)

\* the API-key block: the text after the prefix against the configured key
ApiKeyBranch(self, authorization) ==
    IF DropPrefix(authorization.value, Len(self.api_key_settings.prefix))
          = self.api_key_settings.api_key
    THEN Forward(<<>>, <<>>, 0)
    ELSE Reject("invalid key", FALSE, 0)

\* the JWT block: the token after "Bearer " through get_token_data
JwtBranch(self, authorization) ==
    LET token_data == get_token_data(DropPrefix(authorization.value, Len(BearerPrefix)))
    IN  IF token_data.ok
        THEN Forward(<<token_data.payload.sub>>, <<token_data.payload>>, 1)
        ELSE Reject("invalid credential", TRUE, 1)

\* the end of dispatch without the challenge when both schemes are on
HeaderFormatError_NoChallenge(self) ==
    IF self.api_key_enabled /\ self.jwt_enabled
    THEN Reject("use ApiKey or Bearer", FALSE, 0)
    ELSE IF self.api_key_enabled
    THEN Reject("use ApiKey", FALSE, 0)
    ELSE IF self.jwt_enabled
    THEN Reject("use Bearer", TRUE, 0)
    ELSE Forward(<<>>, <<>>, 0)

\* the end of dispatch: a header that neither block took
HeaderFormatError(self) ==
    IF self.api_key_enabled /\ self.jwt_enabled
    THEN Reject("use ApiKey or Bearer", TRUE, 0)
    ELSE IF self.api_key_enabled
    THEN Reject("use ApiKey", FALSE, 0)
    ELSE IF self.jwt_enabled
    THEN Reject("use Bearer", TRUE, 0)
    ELSE Forward(<<>>, <<>>, 0)

\* AuthMiddleware.dispatch up to its call_next or its JSONResponse
AuthDecision(self, path, authorization) ==
    IF ~self.api_key_enabled /\ ~self.jwt_enabled THEN Forward(<<>>, <<>>, 0)
    ELSE IF Falsy(authorization) THEN MissingCredential(self, path)
    ELSE IF ApiKeyApplies(self, path, authorization) THEN ApiKeyBranch(self, authorization)
    ELSE IF JwtApplies(self, path, authorization) THEN JwtBranch(self, authorization)
    ELSE HeaderFormatError(self)

(***************************************************************************)
(* JSON values, json.dumps and json.loads                                  *)
(*                                                                         *)
(* A JSON value is tagged: a string holds its text, an object its items    *)
(* <<key, value>> in insertion order, an array its elements.               *)
(***************************************************************************)
Str(text) == [t |-> "str", v |-> text]
Obj(items) == [t |-> "obj", v |-> items]
Arr(elems) == [t |-> "arr", v |-> elems]

\* the mask written by _mask_sensitive_data, _get_query_params, _get_headers
MaskToken == <<"******">>
\* the marker appended by _truncate_body
TruncationMarker ==
    <<".", ".", ".", " ", "[", "t", "r", "u", "n", "c", "a", "t", "e", "d", "]">>

\* str.lower on one atom of text
LowerAtom(a) ==
    CASE a = "Password" -> "password"
      [] a = "PASSWORD" -> "password"
      [] a = "Authorization" -> "authorization"
      [] a = "Token" -> "token"
      [] a = "U" -> "u"
      [] a = "Multipart/Form-Data" -> "multipart/form-data"
      [] OTHER -> a

\* str.lower
Lower(s) == [i \in DOMAIN s |-> LowerAtom(s[i])]

\* json.dumps(value)
RECURSIVE json_dumps(_)
RECURSIVE DumpItems(_)
RECURSIVE DumpElems(_)
DumpItems(items) ==
    IF items = <<>> THEN <<>>
    ELSE <<"\"", items[1][1], "\"", ":">> \o json_dumps(items[1][2])
         \o (IF Len(items) > 1 THEN <<",">> ELSE <<>>) \o DumpItems(Tail(items))
DumpElems(elems) ==
    IF elems = <<>> THEN <<>>
    ELSE json_dumps(elems[1])
         \o (IF Len(elems) > 1 THEN <<",">> ELSE <<>>) \o DumpElems(Tail(elems))
json_dumps(value) ==
    IF value.t = "str" THEN <<"\"">> \o value.v \o <<"\"">>
    ELSE IF value.t = "obj" THEN <<"{">> \o DumpItems(value.v) \o <<"}">>
    ELSE <<"[">> \o DumpElems(value.v) \o <<"]">>

\* the sensitive values a client sends, one per place they can arrive in
SecretJson == <<"s-json">>

\* nesting depth of the JSON documents json.loads is asked to recognise
MaxJsonDepth == 2

JsonKeys == {"username", "password", "Password", "nested"}

RECURSIVE JsonValuesOfDepth(_)
JsonValuesOfDepth(d) ==
    IF d = 0 THEN {Str(<<"bob">>), Str(SecretJson), Str(MaskToken)}
    ELSE LET sub == JsonValuesOfDepth(d - 1)
         IN  sub \cup {Obj(<< <<k, v>> >>) : k \in JsonKeys, v \in sub}
                 \cup {Obj(<< <<"username", Str(<<"bob">>)>>, <<k, v>> >>) :
                          k \in JsonKeys \ {"username"}, v \in sub}
                 \cup {Arr(<<v>>) : v \in sub}

JsonValues == JsonValuesOfDepth(MaxJsonDepth)

\* json.loads(text): the value whose serialisation text is, or JSONDecodeError
json_loads(text) ==
    IF \E v \in JsonValues : json_dumps(v) = text
    THEN [ok |-> TRUE, value |-> CHOOSE v \in JsonValues : json_dumps(v) = text]
    ELSE [ok |-> FALSE, value |-> Str(<<>>)]

\* bytes.decode('utf-8'): the text, or UnicodeDecodeError for bytes that are
\* no valid UTF-8
decode_utf8(body) ==
    IF \E i \in DOMAIN body : body[i] \in {"\\xff", "\\xfe"}
    THEN [ok |-> FALSE, text |-> <<>>]
    ELSE [ok |-> TRUE, text |-> body]

(***************************************************************************)
(* RequestResponseLoggingMiddleware                                        *)
(***************************************************************************)

\* request_logging.FILE_CONTENT_TYPES
FILE_CONTENT_TYPES ==
    { <<"multipart/form-data">>, <<"application/octet-stream">>, <<"application/pdf">>,
      <<"application/zip">>, <<"application/x-zip-compressed">>, <<"image/jpeg">>,
      <<"image/png">>, <<"image/gif">>, <<"image/svg+xml">>,
      <<"application/vnd.openxmlformats-officedocument">>, <<"application/vnd.ms-excel">>,
      <<"application/msword">>, <<"application/vnd.ms-powerpoint">>, <<"audio/">>,
      <<"video/">> }

\* the path keywords of _is_file_request
FileKeywords ==
    { <<"/", "u", "p", "l", "o", "a", "d">>, <<"/", "f", "i", "l", "e">>,
      <<"/", "d", "o", "w", "n", "l", "o", "a", "d">>,
      <<"/", "a", "t", "t", "a", "c", "h", "m", "e", "n", "t">> }

\* headers.get(name, default) on a list of <<name, value>> items
HeaderGet(headers, name, default) ==
    IF \E i \in DOMAIN headers : headers[i][1] = name
    THEN headers[CHOOSE i \in DOMAIN headers : headers[i][1] = name][2]
    ELSE default

\* request.headers: the Authorization and Content-Type headers when sent,
\* then the other headers
RequestHeaders(request) ==
    (IF request.authorization.present
     THEN << <<"authorization", request.authorization.value>> >> ELSE <<>>)
    \o (IF request.content_type # <<>>
        THEN << <<"content-type", request.content_type>> >> ELSE <<>>)
    \o request.headers

\* RequestResponseLoggingMiddleware.__init__ as main.py calls it
LoggingMiddlewareInit(logging, exclude_paths) ==
    [ additional_exclude_paths |-> exclude_paths,
      exclude_patterns |-> logging.http.exclude_patterns,
      sensitive_fields |-> logging.sensitive_fields_set,
      max_body_size |-> logging.http.max_body_length,
      log_request_headers |-> TRUE,
      log_response_headers |-> FALSE,
      log_request_body |-> logging.http.request_body,
      log_response_body |-> logging.http.response_body ]

\* masking that walks dicts only, not lists
RECURSIVE _mask_sensitive_data_DictsOnly(_, _)
_mask_sensitive_data_DictsOnly(self, data) ==
    IF data.t = "obj" THEN
        Obj([i \in DOMAIN data.v |->
                IF LowerAtom(data.v[i][1]) \in self.sensitive_fields
                THEN <<data.v[i][1], Str(MaskToken)>>
                ELSE <<data.v[i][1], _mask_sensitive_data_DictsOnly(self, data.v[i][2])>>])
    ELSE data

RECURSIVE _mask_sensitive_data(_, _)
_mask_sensitive_data(self, data) ==
    IF data.t = "obj" THEN
        Obj([i \in DOMAIN data.v |->
                IF LowerAtom(data.v[i][1]) \in self.sensitive_fields
                THEN <<data.v[i][1], Str(MaskToken)>>
                ELSE <<data.v[i][1], _mask_sensitive_data(self, data.v[i][2])>>])
    ELSE IF data.t = "arr" THEN
        Arr([i \in DOMAIN data.v |-> _mask_sensitive_data(self, data.v[i])])
    ELSE data

\* truncation that also cuts a body of exactly the maximum length
_truncate_body_FromMax(self, body) ==
    IF Len(body) >= self.max_body_size
    THEN SubSeq(body, 1, self.max_body_size) \o TruncationMarker
    ELSE body

_truncate_body(self, body) ==
    IF Len(body) > self.max_body_size
    THEN SubSeq(body, 1, self.max_body_size) \o TruncationMarker
    ELSE body

\* a file test that looks at the Content-Type only
_is_file_request_ContentTypeOnly(request) ==
    LET content_type == Lower(HeaderGet(RequestHeaders(request), "content-type", <<>>))
    IN  \E file_type \in FILE_CONTENT_TYPES : StartsWith(content_type, file_type)

_is_file_request(request) ==
    LET content_type == Lower(HeaderGet(RequestHeaders(request), "content-type", <<>>))
    IN  \/ \E file_type \in FILE_CONTENT_TYPES : StartsWith(content_type, file_type)
        \/ \E keyword \in FileKeywords : Contains(keyword, Lower(request.path))

_is_file_response(response) ==
    LET content_disposition == Lower(HeaderGet(response.headers, "content-disposition", <<>>))
        content_type == Lower(HeaderGet(response.headers, "content-type", <<>>))
    IN  \/ response.cls = "FileResponse"
        \/ \E i \in DOMAIN content_disposition :
              content_disposition[i] \in {"attachment", "inline"}
        \/ \E file_type \in FILE_CONTENT_TYPES : StartsWith(content_type, file_type)

\* the first path part holding a ".", when the path contains "/upload/"
_get_file_details(request, content_type) ==
    LET parts == Split(request.path, Slash)
        named == {i \in DOMAIN parts : Contains(<<".">>, parts[i])}
        base == << <<"type", Str(<<"file_upload">>)>>, <<"content_type", Str(content_type)>> >>
    IN  IF Contains(<<"/", "u", "p", "l", "o", "a", "d", "/">>, request.path) /\ named # {}
        THEN Obj(base \o << <<"filename",
                              Str(parts[CHOOSE i \in named : \A j \in named : i <= j])>> >>)
        ELSE Obj(base)

NotLogged == Str(<<"<file content not logged>">>)

\* _get_request_body: the text to log (<<>> for None, <<text>> otherwise),
\* whether request.body() read the stream, and whether request._receive was
\* replaced by a replay of the bytes read
_get_request_body(self, request) ==
    IF ~self.log_request_body
    THEN [text |-> <<>>, read |-> FALSE, restored |-> FALSE]
    ELSE IF _is_file_request(request)
    THEN [text |-> <<json_dumps(Obj(<<
                     <<"file_upload_info",
                       _get_file_details(request,
                           Lower(HeaderGet(RequestHeaders(request), "content-type", <<>>)))>>,
                     <<"message", NotLogged>> >>))>>,
          read |-> FALSE, restored |-> FALSE]
    ELSE IF request.body = <<>>
    THEN [text |-> <<>>, read |-> TRUE, restored |-> FALSE]
    ELSE IF ~decode_utf8(request.body).ok
    THEN [text |-> <<>>, read |-> TRUE, restored |-> FALSE]
    ELSE LET body_str == decode_utf8(request.body).text
             json_body == json_loads(body_str)
         IN  [text |-> IF json_body.ok
                       THEN <<_truncate_body(self,
                                 json_dumps(_mask_sensitive_data(self, json_body.value)))>>
                       ELSE <<_truncate_body(self, body_str)>>,
              read |-> TRUE, restored |-> TRUE]

_get_query_params(self, request) ==
    [i \in DOMAIN request.query |->
        IF LowerAtom(request.query[i][1]) \in self.sensitive_fields
        THEN <<request.query[i][1], MaskToken>>
        ELSE request.query[i]]

_get_headers(self, headers, is_request) ==
    IF (is_request /\ ~self.log_request_headers) \/ (~is_request /\ ~self.log_response_headers)
    THEN <<>>
    ELSE [i \in DOMAIN headers |->
            IF \/ LowerAtom(headers[i][1]) \in self.sensitive_fields
               \/ LowerAtom(headers[i][1]) = "authorization"
            THEN <<headers[i][1], MaskToken>>
            ELSE headers[i]]

\* _capture_response_body on the response call_next returned
_capture_response_body(self, response) ==
    IF ~self.log_response_body THEN <<>>
    ELSE IF _is_file_response(response) THEN
        LET content_disposition == HeaderGet(response.headers, "content-disposition", <<>>)
            named == {i \in DOMAIN content_disposition :
                         content_disposition[i] = "filename=" /\ i < Len(content_disposition)}
            base == << <<"type", Str(<<"file_download">>)>>,
                       <<"content_type",
                         Str(HeaderGet(response.headers, "content-type", <<"unknown">>))>> >>
            file_info ==
                IF named # {}
                THEN Obj(base \o << <<"filename",
                         Str(<<content_disposition[(CHOOSE i \in named : \A j \in named : i <= j) + 1]>>)>> >>)
                ELSE Obj(base)
        IN  <<json_dumps(Obj(<< <<"file_download_info", file_info>>, <<"message", NotLogged>> >>))>>
    ELSE IF response.cls = "LoggableJSONResponse" THEN
        IF response.body_raw # <<>>
        THEN <<_truncate_body(self, json_dumps(_mask_sensitive_data(self, response.body_raw[1])))>>
        ELSE <<>>
    ELSE IF response.cls = "JSONResponse" THEN
        IF response.body = <<>> THEN <<>>
        ELSE IF ~decode_utf8(response.body).ok THEN <<>>
        ELSE LET body_str == decode_utf8(response.body).text
                 json_body == json_loads(body_str)
             IN  IF json_body.ok
                 THEN <<_truncate_body(self,
                          json_dumps(_mask_sensitive_data(self, json_body.value)))>>
                 ELSE <<_truncate_body(self, body_str)>>
    ELSE <<>>

\* a logging middleware that excludes no path
is_path_excluded_Never(self, path) == FALSE

\* is_path_excluded of the logging middleware
is_path_excluded(self, path) ==
    IsExcluded(path, self.additional_exclude_paths, self.exclude_patterns)

(***************************************************************************)
(* The application of main.py: one request travelling down the middleware  *)
(* stack to the endpoint and its response (or exception) travelling back.  *)
(***************************************************************************)
VARIABLES
    settings,     \* yaml_settings, read-only after startup
    request,      \* the request as the client sent it
    scope_path,   \* request.scope["path"]
    stream,       \* the ASGI receive channel: "unread" or "consumed"
    replay,       \* request._receive as replaced by body capture: <<>> or <<bytes>>
    state,        \* request.state: user and token_data, <<>> when not set
    pc,           \* the stage at work and whether it is being called or returned to
    response,     \* <<>>, or <<r>>: the response or exception on its way back
    received,     \* per stage, what its call_next returned (<<>> before)
    returned,     \* per stage, what its dispatch returned or raised (<<>> before)
    calls,        \* how often each stage was entered, the token verifier called
                  \* ("verify") and the gate's call_next invoked ("call_next")
    entered,      \* the stages in the order they were entered
    path_seen,    \* per stage, request.url.path as it found it (<<>> before)
    logs,         \* the records the logging middleware emitted
    log_ctx,      \* the logging middleware's locals across its call_next
    handler_seen, \* <<>>, or what the endpoint handler found in the request
    uuids,        \* number of uuid4 values drawn so far
    unit,         \* a method applied on its own: its arguments and, once it
                  \* returned, its result (NoUnit while a request is dispatched)
    tasks,        \* the coroutines the event loop interleaves at their awaits:
                  \* per task its position and its local variables
    system_status \* status.system_status, the singleton the health checks share

vars == << settings, request, scope_path, stream, replay, state, pc, response, received,
           returned, calls, entered, path_seen, logs, log_ctx, handler_seen, uuids, unit,
           tasks, system_status >>

NoUnit == [fn |-> "none", args |-> <<>>, out |-> <<>>]

\* one request, handled alone: no other coroutine
NoTasks == <<>>

\* SystemStatus.__init__ (the time stamps and the error list left out)
Components == {"database", "cache", "local_cache", "external_services"}

SystemStatus__init__ == [components |-> [c \in Components |-> FALSE], initialized |-> FALSE]

\* the add_middleware calls of main.py, in program order
AddMiddlewareCalls ==
    << "TrailingSlashMiddleware", "CORSMiddleware", "RequestResponseLoggingMiddleware",
       "AuthMiddleware" >>

\* Starlette's add_middleware puts each middleware in front of those added
\* before it: the stack as requests traverse it, outermost first
RECURSIVE Reverse(_)
Reverse(s) == IF s = <<>> THEN <<>> ELSE Reverse(Tail(s)) \o <<Head(s)>>

MiddlewareStack == Reverse(AddMiddlewareCalls)

Stages == {MiddlewareStack[i] : i \in DOMAIN MiddlewareStack} \cup {"endpoint"}

StageAt(i) == IF i \in DOMAIN MiddlewareStack THEN MiddlewareStack[i] ELSE "endpoint"

Calling(stage) == pc.ph = "call" /\ StageAt(pc.i) = stage
Returning(stage) == pc.ph = "return" /\ pc.i >= 1 /\ StageAt(pc.i) = stage

\* await call_next(request): enter the next stage
CallNext(stage) ==
    /\ pc' = [i |-> pc.i + 1, ph |-> "call"]
    /\ entered' = Append(entered, stage)
    /\ path_seen' = [path_seen EXCEPT ![stage] = <<scope_path>>]
    /\ calls' = [calls EXCEPT ![stage] = @ + 1]

\* the stage's dispatch ends with r, a response returned or an exception raised
Finish(stage, r) ==
    /\ response' = <<r>>
    /\ returned' = [returned EXCEPT ![stage] = <<r>>]
    /\ pc' = IF pc.i = 1 THEN [i |-> 0, ph |-> "done"] ELSE [i |-> pc.i - 1, ph |-> "return"]

\* a stage that answers without calling the next one
Answer(stage, r) ==
    /\ Finish(stage, r)
    /\ entered' = Append(entered, stage)
    /\ path_seen' = [path_seen EXCEPT ![stage] = <<scope_path>>]
    /\ calls' = [calls EXCEPT ![stage] = @ + 1]

HttpResponse(cls, status_code, headers, body) ==
    [ kind |-> "response", cls |-> cls, status_code |-> status_code, headers |-> headers,
      body |-> body, body_raw |-> <<>>, error |-> <<>> ]

Raised(error) ==
    [ kind |-> "exception", cls |-> "Exception", status_code |-> 0, headers |-> <<>>,
      body |-> <<>>, body_raw |-> <<>>, error |-> error ]

\* what BaseHTTPMiddleware's call_next hands back: the downstream response
\* re-wrapped as a streaming response, or the downstream exception
call_next_result(r) ==
    IF r.kind = "response" THEN [r EXCEPT !.cls = "StreamingResponse"] ELSE r

\* response.headers[name] = value
SetHeader(r, name, value) ==
    [r EXCEPT !.headers =
        IF \E i \in DOMAIN r.headers : r.headers[i][1] = name
        THEN [i \in DOMAIN r.headers |->
                 IF r.headers[i][1] = name THEN <<name, value>> ELSE r.headers[i]]
        ELSE Append(r.headers, <<name, value>>)]

\* the request as a middleware entered now sees it
CurrentRequest == [request EXCEPT !.path = scope_path]

(***************************************************************************)
(* TrailingSlashMiddleware.dispatch                                        *)
(***************************************************************************)
\* request.url: the path of the scope and the query string
request_url(req) == [path |-> req.path, query |-> req.query]

\* URL.replace(path=...)
url_replace_path(url, path) == [url EXCEPT !.path = path]

\* a dispatch that redirects in both modes
TrailingSlashCall_AlwaysRedirects ==
    /\ Calling("TrailingSlashMiddleware")
    /\ LET path == scope_path
           trailing == path # <<Slash>> /\ EndsWith(path, <<Slash>>)
           normalized_path == RStrip(path, Slash)
       IN  IF trailing
           THEN /\ Answer("TrailingSlashMiddleware",
                          HttpResponse("RedirectResponse", 301,
                                       << <<"location",
                                            url_replace_path(request_url(CurrentRequest),
                                                             normalized_path)>> >>, <<>>))
                /\ UNCHANGED scope_path
           ELSE /\ CallNext("TrailingSlashMiddleware")
                /\ UNCHANGED << scope_path, response, returned >>
    /\ UNCHANGED << tasks, system_status, unit, settings, request, stream, replay, state, received, logs, log_ctx,
                    handler_seen, uuids >>

\* a dispatch that forwards in both modes
TrailingSlashCall_NeverRedirects ==
    /\ Calling("TrailingSlashMiddleware")
    /\ LET path == scope_path
           trailing == path # <<Slash>> /\ EndsWith(path, <<Slash>>)
           normalized_path == RStrip(path, Slash)
       IN  /\ CallNext("TrailingSlashMiddleware")
           /\ scope_path' = IF trailing THEN normalized_path ELSE scope_path
           /\ UNCHANGED << response, returned >>
    /\ UNCHANGED << tasks, system_status, unit, settings, request, stream, replay, state, received, logs, log_ctx,
                    handler_seen, uuids >>

TrailingSlashCall ==
    /\ Calling("TrailingSlashMiddleware")
    /\ LET path == scope_path
           trailing == path # <<Slash>> /\ EndsWith(path, <<Slash>>)
           normalized_path == RStrip(path, Slash)
       IN  IF trailing /\ settings.redirect
           THEN /\ Answer("TrailingSlashMiddleware",
                          HttpResponse("RedirectResponse", 301,
                                       << <<"location",
                                            url_replace_path(request_url(CurrentRequest),
                                                             normalized_path)>> >>, <<>>))
                /\ UNCHANGED scope_path
           ELSE /\ CallNext("TrailingSlashMiddleware")
                /\ scope_path' = IF trailing THEN normalized_path ELSE scope_path
                /\ UNCHANGED << response, returned >>
    /\ UNCHANGED << tasks, system_status, unit, settings, request, stream, replay, state, received, logs, log_ctx,
                    handler_seen, uuids >>

TrailingSlashReturn ==
    /\ Returning("TrailingSlashMiddleware")
    /\ received' = [received EXCEPT
                       !["TrailingSlashMiddleware"] = <<call_next_result(response[1])>>]
    /\ Finish("TrailingSlashMiddleware", call_next_result(response[1]))
    /\ UNCHANGED << tasks, system_status, unit, settings, request, scope_path, stream, replay, state, calls, entered,
                    path_seen, logs, log_ctx, handler_seen, uuids >>

(***************************************************************************)
(* CORSMiddleware on a request that is no preflight: it forwards           *)
(***************************************************************************)
CORSCall ==
    /\ Calling("CORSMiddleware")
    /\ CallNext("CORSMiddleware")
    /\ UNCHANGED << tasks, system_status, unit, settings, request, scope_path, stream, replay, state, response, received,
                    returned, logs, log_ctx, handler_seen, uuids >>

CORSReturn ==
    /\ Returning("CORSMiddleware")
    /\ received' = [received EXCEPT !["CORSMiddleware"] = <<response[1]>>]
    /\ Finish("CORSMiddleware", response[1])
    /\ UNCHANGED << tasks, system_status, unit, settings, request, scope_path, stream, replay, state, calls, entered,
                    path_seen, logs, log_ctx, handler_seen, uuids >>

(***************************************************************************)
(* RequestResponseLoggingMiddleware.dispatch                               *)
(***************************************************************************)
\* a record that leaves out the error description
LogRecord_WithoutError(message, context, status_code, response_body, error) ==
    [ message |-> message,
      request_id |-> context.request_id,
      method |-> context.method,
      path |-> context.path,
      query_params |-> context.query_params,
      headers |-> context.headers,
      request_body |-> context.request_body,
      status_code |-> status_code,
      process_time_ms |-> IF status_code = <<>> THEN <<>> ELSE <<"elapsed">>,
      response_body |-> response_body,
      error |-> <<>> ]

\* the extra fields of a record: the logging context as dispatch has updated
\* it (status_code and process_time_ms together, after call_next)
LogRecord(message, context, status_code, response_body, error) ==
    [ message |-> message,
      request_id |-> context.request_id,
      method |-> context.method,
      path |-> context.path,
      query_params |-> context.query_params,
      headers |-> context.headers,
      request_body |-> context.request_body,
      status_code |-> status_code,
      process_time_ms |-> IF status_code = <<>> THEN <<>> ELSE <<"elapsed">>,
      response_body |-> response_body,
      error |-> error ]

NoContext ==
    [ request_id |-> 0, method |-> "", path |-> <<>>, query_params |-> <<>>,
      headers |-> <<>>, request_body |-> <<>> ]

\* up to "await call_next(request)"
LoggingCall ==
    /\ Calling("RequestResponseLoggingMiddleware")
    /\ CallNext("RequestResponseLoggingMiddleware")
    /\ LET self == LoggingMiddlewareInit(settings.logging, <<>>)
           path == scope_path
       IN  IF is_path_excluded(self, path)
           THEN /\ log_ctx' = [excluded |-> TRUE, context |-> NoContext]
                /\ UNCHANGED << stream, replay, logs, uuids >>
           ELSE LET request_id == uuids + 1
                    request_body == _get_request_body(self, CurrentRequest)
                    logging_context ==
                        [ request_id |-> request_id,
                          method |-> request.method,
                          path |-> path,
                          query_params |-> _get_query_params(self, CurrentRequest),
                          headers |-> _get_headers(self, RequestHeaders(CurrentRequest), TRUE),
                          request_body |-> request_body.text ]
                IN  /\ uuids' = request_id
                    /\ stream' = IF request_body.read THEN "consumed" ELSE stream
                    /\ replay' = IF request_body.restored THEN <<request.body>> ELSE replay
                    /\ logs' = Append(logs, LogRecord("started", logging_context, <<>>, <<>>, <<>>))
                    /\ log_ctx' = [excluded |-> FALSE, context |-> logging_context]
    /\ UNCHANGED << tasks, system_status, unit, settings, request, scope_path, state, response, received, returned,
                    handler_seen >>

\* from the return of call_next on
LoggingReturn ==
    /\ Returning("RequestResponseLoggingMiddleware")
    /\ LET self == LoggingMiddlewareInit(settings.logging, <<>>)
           r == call_next_result(response[1])
       IN  /\ received' = [received EXCEPT !["RequestResponseLoggingMiddleware"] = <<r>>]
           /\ IF log_ctx.excluded
              THEN /\ Finish("RequestResponseLoggingMiddleware", r)
                   /\ UNCHANGED logs
              ELSE IF r.kind = "response"
              THEN /\ logs' = Append(logs, LogRecord("completed", log_ctx.context,
                                         <<r.status_code>>, _capture_response_body(self, r), <<>>))
                   /\ Finish("RequestResponseLoggingMiddleware",
                             SetHeader(r, "X-Request-ID", <<log_ctx.context.request_id>>))
              ELSE /\ logs' = Append(logs, LogRecord("failed", log_ctx.context,
                                         <<500>>, <<>>, <<r.error>>))
                   /\ Finish("RequestResponseLoggingMiddleware", r)
    /\ UNCHANGED << tasks, system_status, unit, settings, request, scope_path, stream, replay, state, calls, entered,
                    path_seen, log_ctx, handler_seen, uuids >>

(***************************************************************************)
(* AuthMiddleware.dispatch                                                 *)
(***************************************************************************)
Unauthorized(decision) ==
    HttpResponse("JSONResponse", decision.status,
                 << <<"content-type", <<"application/json">>>> >>
                 \o (IF decision.www_authenticate
                     THEN << <<"WWW-Authenticate", <<"Bearer">>>> >> ELSE <<>>),
                 json_dumps(Obj(<< <<"detail", Str(<<decision.detail>>)>> >>)))

AuthCall ==
    /\ Calling("AuthMiddleware")
    /\ LET self == AuthMiddlewareInit(settings.api.auth, <<>>)
           decision == AuthDecision(self, scope_path, request.authorization)
       IN  /\ entered' = Append(entered, "AuthMiddleware")
           /\ path_seen' = [path_seen EXCEPT !["AuthMiddleware"] = <<scope_path>>]
           /\ calls' = [calls EXCEPT !["AuthMiddleware"] = @ + 1,
                                     !["verify"] = @ + decision.verified,
                                     !["call_next"] = @ + (IF decision.forward THEN 1 ELSE 0)]
           /\ IF decision.forward
              THEN /\ pc' = [i |-> pc.i + 1, ph |-> "call"]
                   /\ state' = IF decision.token_data # <<>>
                               THEN [user |-> decision.user, token_data |-> decision.token_data]
                               ELSE state
                   /\ UNCHANGED << response, returned >>
              ELSE /\ Finish("AuthMiddleware", Unauthorized(decision))
                   /\ UNCHANGED state
    /\ UNCHANGED << tasks, system_status, unit, settings, request, scope_path, stream, replay, received, logs, log_ctx,
                    handler_seen, uuids >>

\* a gate that answers 401 when the stage it forwarded to raises
AuthReturn_RejectsAfterForward ==
    /\ Returning("AuthMiddleware")
    /\ received' = [received EXCEPT !["AuthMiddleware"] = <<call_next_result(response[1])>>]
    /\ Finish("AuthMiddleware",
              IF response[1].kind = "exception"
              THEN Unauthorized(Reject("invalid credential", TRUE, 0))
              ELSE call_next_result(response[1]))
    /\ UNCHANGED << tasks, system_status, unit, settings, request, scope_path, stream, replay, state, calls, entered,
                    path_seen, logs, log_ctx, handler_seen, uuids >>

\* call_next returns or raises.  The call_next of the JWT block stands inside
\* the try whose except turns an HTTPException into a 401; every other
\* exception, and every exception of the other call_next sites, propagates.
AuthReturn ==
    /\ Returning("AuthMiddleware")
    /\ LET r == call_next_result(response[1])
       IN  /\ received' = [received EXCEPT !["AuthMiddleware"] = <<r>>]
           /\ Finish("AuthMiddleware",
                     IF calls["verify"] = 1 /\ r.kind = "exception" /\ r.cls = "HTTPException"
                     THEN Unauthorized(Reject("invalid credential", TRUE, 1))
                     ELSE r)
    /\ UNCHANGED << tasks, system_status, unit, settings, request, scope_path, stream, replay, state, calls, entered,
                    path_seen, logs, log_ctx, handler_seen, uuids >>

(***************************************************************************)
(* The endpoint handler: it reads the request body (as create_user of the  *)
(* tests does with request.json()), then returns a response or raises.     *)
(***************************************************************************)

\* what the handler's read of the body can yield.  A replaced
\* request._receive replays the captured bytes; an unread channel delivers
\* the bytes sent; a channel the middleware drained without replacing
\* request._receive delivers what the installed Starlette does with it: the
\* bytes again (call_next replays the cached body) or nothing more (the
\* handler's read ends in ClientDisconnect).
HandlerReads ==
    IF replay # <<>> THEN {[ok |-> TRUE, bytes |-> replay[1]]}
    ELSE IF stream = "unread" THEN {[ok |-> TRUE, bytes |-> request.body]}
    ELSE {[ok |-> TRUE, bytes |-> request.body], [ok |-> FALSE, bytes |-> <<>>]}

\* an HTTPException of the handler never leaves the application FastAPI()
\* builds: its exception middleware, inside every add_middleware stage,
\* answers it with a JSON response of the exception's status
HTTPExceptionResponse ==
    HttpResponse("JSONResponse", 404, << <<"content-type", <<"application/json">>>> >>,
                 json_dumps(Obj(<< <<"detail", Str(<<"Not Found">>)>> >>)))

EndpointResponse ==
    HttpResponse("JSONResponse", 200, << <<"content-type", <<"application/json">>>> >>,
                 json_dumps(Obj(<< <<"username", Str(<<"bob">>)>> >>)))

Endpoint ==
    /\ Calling("endpoint")
    /\ \E read \in HandlerReads, outcome \in {"return", "raise", "raise HTTPException"} :
          /\ handler_seen' = <<[path |-> scope_path, body |-> read, user |-> state.user,
                                token_data |-> state.token_data]>>
          /\ IF ~read.ok
             THEN Answer("endpoint", Raised(<<"ClientDisconnect">>))
             ELSE IF outcome = "raise"
             THEN Answer("endpoint", Raised(<<"handler error">>))
             ELSE IF outcome = "raise HTTPException"
             THEN Answer("endpoint", HTTPExceptionResponse)
             ELSE Answer("endpoint", EndpointResponse)
    /\ stream' = "consumed"
    /\ UNCHANGED << tasks, system_status, unit, settings, request, scope_path, replay, state, received, logs, log_ctx,
                    uuids >>

(***************************************************************************)
(* Configurations and requests                                             *)
(***************************************************************************)
NoAuthorization == [present |-> FALSE, value |-> <<>>]
Authorization(value) == [present |-> TRUE, value |-> value]

AuthorizationHeaders ==
    { NoAuthorization,
      Authorization(<<>>),
      Authorization(ApiKeyPrefix \o KeyConfigured),
      Authorization(ApiKeyPrefix \o <<"k", "2">>),
      Authorization(BearerPrefix \o TokenGood),
      Authorization(BearerPrefix \o TokenNoSub),
      Authorization(BearerPrefix \o <<"t", "e">>),
      Authorization(BearerPrefix \o <<"t", "f">>),
      Authorization(BasicPrefix \o KeyConfigured) }

Paths == {PathRoot, PathHealth, PathHealthSlash, PathApiUsers, PathApiUsersSlash, PathMetrics}

ExcludePatternLists == { <<>>, <<PatHealthAll, PatMetrics>>, <<PatApiAny>> }

\* yaml_config.LoggingHttpConfig.sensitive_fields
DefaultSensitiveFields == {"password", "token", "authorization", "api_key", "secret"}

\* logging.http.max_body_length of the configurations explored
MaxBodyLength == 16

ContentTypeJson == <<"application/json">>

BodyEmpty == <<>>
BodyJsonFlat ==
    json_dumps(Obj(<< <<"username", Str(<<"bob">>)>>, <<"password", Str(SecretJson)>> >>))

\* a body with the Content-Type header it is sent under (<<>>: no header)
Payloads ==
    { <<BodyEmpty, <<>>>>, <<BodyJsonFlat, ContentTypeJson>>, 
      << json_dumps(Obj(<< <<"nested", Obj(<< <<"password", Str(SecretJson)>> >>)>> >>)),
         ContentTypeJson >>,
      << <<"password", "=", "s-form">>, <<"application/x-www-form-urlencoded">> >>,
      << <<"hello", " ", "world">>, <<>> >>,
      << <<"\\xff", "\\xfe">>, <<>> >>,
      << BodyJsonFlat, <<"multipart/form-data", "; boundary=x">> >> }

QueryStrings ==
    { <<>>, << <<"q", <<"x">>>> >>, << <<"password", <<"s-query">>>> >> }

Settings(api_enabled, api_key, api_patterns, jwt_enabled, jwt_patterns, log_patterns, request_body, redirect) ==
    [ api |-> [auth |->
        [ api_key |-> [ enabled |-> api_enabled, prefix |-> ApiKeyPrefix, api_key |-> api_key,
                        exclude_patterns |-> api_patterns ],
          jwt |-> [ enabled |-> jwt_enabled, exclude_patterns |-> jwt_patterns ] ]],
      logging |->
        [ http |-> [ request_body |-> request_body, response_body |-> TRUE,
                     max_body_length |-> MaxBodyLength, exclude_patterns |-> log_patterns ],
          sensitive_fields_set |-> DefaultSensitiveFields ],
      redirect |-> redirect ]

Request(method, path, authorization, payload, query, headers) ==
    [ method |-> method, path |-> path, authorization |-> authorization,
      content_type |-> payload[2], headers |-> headers, query |-> query, body |-> payload[1] ]

\* every combination of scheme flags, key, exclusion lists, path and
\* Authorization header, on a plain GET
GateCases ==
    { <<Settings(api_enabled, api_key, api_patterns, jwt_enabled, jwt_patterns,
                 <<PatHealthAll, PatMetrics>>, TRUE, FALSE),
        Request("GET", path, authorization, <<BodyEmpty, <<>>>>, <<>>, <<>>)>> :
        api_enabled \in BOOLEAN, api_key \in {KeyUnset, KeyConfigured},
        api_patterns \in ExcludePatternLists, jwt_enabled \in BOOLEAN,
        jwt_patterns \in ExcludePatternLists, path \in Paths,
        authorization \in AuthorizationHeaders }

\* every payload, query string and header set, on requests the gate lets
\* through: authentication off, or API-key authentication with the right key
CaptureCases ==
    { <<Settings(api_enabled, KeyConfigured, <<PatHealthAll, PatMetrics>>, FALSE,
                 <<PatHealthAll, PatMetrics>>, <<PatHealthAll, PatMetrics>>, request_body,
                 FALSE),
        Request("POST", path, Authorization(ApiKeyPrefix \o KeyConfigured), payload, query,
                headers)>> :
        api_enabled \in BOOLEAN, request_body \in BOOLEAN,
        path \in {PathApiUsers, PathApiUsersSlash, PathHealth, PathUpload},
        payload \in Payloads, query \in QueryStrings, headers \in { <<>>, << <<"token", <<"s-header">>>> >> } }

\* both variants of the trailing-slash middleware (redirect=True as the
\* tests add it, redirect=False as main.py does), authentication off
RedirectCases ==
    { <<Settings(FALSE, KeyUnset, <<>>, FALSE, <<>>, <<PatHealthAll, PatMetrics>>, TRUE,
                 redirect),
        Request("GET", path, NoAuthorization, <<BodyEmpty, <<>>>>, query, <<>>)>> :
        redirect \in BOOLEAN, query \in QueryStrings,
        \* paths with one trailing slash, with none, and "//" and "/foo//"
        path \in Paths \cup {<<"/", "/">>, <<"/", "f", "o", "o", "/", "/">>} }

Cases == GateCases \cup CaptureCases \cup RedirectCases

Init ==
    /\ \E case \in Cases :
          /\ settings = case[1]
          /\ request = case[2]
          /\ scope_path = case[2].path
    /\ stream = "unread"
    /\ replay = <<>>
    /\ state = [user |-> <<>>, token_data |-> <<>>]
    /\ pc = [i |-> 1, ph |-> "call"]
    /\ response = <<>>
    /\ received = [s \in Stages |-> <<>>]
    /\ returned = [s \in Stages |-> <<>>]
    /\ calls = [s \in Stages \cup {"verify", "call_next"} |-> 0]
    /\ entered = <<>>
    /\ path_seen = [s \in Stages |-> <<>>]
    /\ logs = <<>>
    /\ log_ctx = [excluded |-> FALSE, context |-> NoContext]
    /\ handler_seen = <<>>
    /\ uuids = 0
    /\ unit = NoUnit
    /\ tasks = NoTasks
    /\ system_status = SystemStatus__init__

Next ==
    \/ AuthCall
    \/ AuthReturn
    \/ LoggingCall
    \/ LoggingReturn
    \/ CORSCall
    \/ CORSReturn
    \/ TrailingSlashCall
    \/ TrailingSlashReturn
    \/ Endpoint

Spec == Init /\ [][Next]_vars

Done == pc.ph = "done"

TypeOK ==
    /\ pc.ph \in {"call", "return", "done"}
    /\ pc.i \in 0..(Len(MiddlewareStack) + 1)
    /\ stream \in {"unread", "consumed"}
    /\ Len(logs) <= 2

(***************************************************************************)
(* What the properties below observe                                       *)
(***************************************************************************)
AuthSelf == AuthMiddlewareInit(settings.api.auth, <<>>)
LoggingSelf == LoggingMiddlewareInit(settings.logging, <<>>)

\* the gate has taken its decision on the request
GateDecided == calls["AuthMiddleware"] = 1
GatePath == path_seen["AuthMiddleware"][1]

\* the gate invoked the next stage / answered 401 itself without invoking it
GateForwarded == GateDecided /\ calls["call_next"] = 1
GateRejected ==
    /\ GateDecided
    /\ calls["call_next"] = 0
    /\ returned["AuthMiddleware"] # <<>>
    /\ returned["AuthMiddleware"][1].kind = "response"
    /\ returned["AuthMiddleware"][1].status_code = 401

HasHeader(r, name, value) == \E i \in DOMAIN r.headers : r.headers[i] = <<name, value>>
HasHeaderNamed(r, name) == \E i \in DOMAIN r.headers : r.headers[i][1] = name

ApiKeyProtects == AuthSelf.api_key_enabled /\ ~is_path_excluded_apikey(AuthSelf, GatePath)
JwtProtects == AuthSelf.jwt_enabled /\ ~is_path_excluded_jwt(AuthSelf, GatePath)

\* the logging middleware handled the request on a path it does not exclude
LoggingRan == calls["RequestResponseLoggingMiddleware"] = 1 /\ ~log_ctx.excluded
LoggingRequest == [request EXCEPT !.path = path_seen["RequestResponseLoggingMiddleware"][1]]

\* every piece of text a log record carries
LogTexts(rec) ==
    {rec.path} \cup {rec.request_body[i] : i \in DOMAIN rec.request_body}
    \cup {rec.response_body[i] : i \in DOMAIN rec.response_body}
    \cup {rec.error[i] : i \in DOMAIN rec.error}
    \cup {rec.query_params[i][2] : i \in DOMAIN rec.query_params}
    \cup {rec.headers[i][2] : i \in DOMAIN rec.headers}

\* the values found under a sensitive key of a JSON value, at any depth
RECURSIVE SensitiveJsonValues(_, _)
SensitiveJsonValues(fields, data) ==
    IF data.t = "obj" THEN
        UNION { IF data.v[i][1] \in fields
                THEN IF data.v[i][2].t = "str" THEN {data.v[i][2].v} ELSE {}
                ELSE SensitiveJsonValues(fields, data.v[i][2]) : i \in DOMAIN data.v }
    ELSE IF data.t = "arr" THEN
        UNION { SensitiveJsonValues(fields, data.v[i]) : i \in DOMAIN data.v }
    ELSE {}

\* the values the request carries under a sensitive field name: in a JSON
\* body, in a form-encoded body, in the query string, in a header
SensitiveValues(fields, req) ==
    LET text == decode_utf8(req.body)
        json_body == json_loads(text.text)
    IN  (IF text.ok /\ json_body.ok THEN SensitiveJsonValues(fields, json_body.value) ELSE {})
        \cup (IF Len(req.body) > 2 /\ req.body[2] = "=" /\ req.body[1] \in fields
              THEN {DropPrefix(req.body, 2)} ELSE {})
        \cup {req.query[i][2] : i \in {j \in DOMAIN req.query : req.query[j][1] \in fields}}
        \cup {RequestHeaders(req)[i][2] :
                 i \in {j \in DOMAIN RequestHeaders(req) : RequestHeaders(req)[j][1] \in fields}}

(***************************************************************************)
(* C1: on a path not excluded from logging, no log record (started,        *)
(* completed, failed) contains the original value of a field whose name is *)
(* in the sensitive-field set, wherever the field arrives: JSON body,      *)
(* non-JSON body such as password=..., query string, header.               *)
(* The code logs a body that is no JSON as it came.                        *)
(***************************************************************************)
C1_NoSensitiveValueLogged ==
    \A i \in DOMAIN logs :
        \A value \in SensitiveValues(LoggingSelf.sensitive_fields, request) :
            value # <<>> => \A text \in LogTexts(logs[i]) : ~Contains(value, text)

(***************************************************************************)
(* C2: a request whose path is excluded from every enabled authentication  *)
(* scheme is always forwarded to the handler and never rejected by the     *)
(* gate, whatever its Authorization header is.                             *)
(* The code forwards it only when it carries no Authorization header: with *)
(* a header, neither block takes it and dispatch ends in the 401 for a     *)
(* malformed header; its last line, the call_next for paths that need no   *)
(* authentication, is never reached.                                       *)
(***************************************************************************)
C2_ExcludedPathForwarded ==
    (GateDecided /\ ~ApiKeyProtects /\ ~JwtProtects) => (GateForwarded /\ ~GateRejected)

(***************************************************************************)
(* C3: in the application main.py assembles, a request passes the stages   *)
(* in the order TrailingSlashMiddleware, logging middleware, AuthMiddleware,*)
(* endpoint; so the logging and auth stages decide on the normalized path  *)
(* and a request the gate rejects still gets its started and completed     *)
(* records.                                                                *)
(* main.py adds the middlewares in that order, and add_middleware makes    *)
(* the one added last the outermost: the gate runs first, on the path as   *)
(* sent, and a request it rejects reaches no other stage.                  *)
(***************************************************************************)
Position(stage) ==
    IF \E i \in DOMAIN entered : entered[i] = stage
    THEN CHOOSE i \in DOMAIN entered : entered[i] = stage
    ELSE 0

Normalized(path) ==
    IF path # <<Slash>> /\ EndsWith(path, <<Slash>>) THEN RStrip(path, Slash) ELSE path

C3_StageOrder ==
    /\ entered # <<>> => entered[1] = "TrailingSlashMiddleware"
    /\ Position("AuthMiddleware") # 0 =>
          /\ Position("RequestResponseLoggingMiddleware") # 0
          /\ Position("TrailingSlashMiddleware") < Position("RequestResponseLoggingMiddleware")
          /\ Position("RequestResponseLoggingMiddleware") < Position("AuthMiddleware")
          /\ GatePath = Normalized(request.path)
    /\ Position("endpoint") # 0 => Position("AuthMiddleware") \in 1..(Position("endpoint") - 1)
    /\ (Done /\ GateRejected) =>
          /\ Len(logs) = 2
          /\ logs[1].message = "started"
          /\ logs[2].message = "completed"

(***************************************************************************)
(* C4: whenever body capture reads the body of a non-file request, the     *)
(* handler afterwards reads exactly the bytes the client sent, for every   *)
(* body: empty, not valid UTF-8, not valid JSON.                           *)
(* The code replaces request._receive only after a non-empty body decoded: *)
(* after an empty body or one that is no UTF-8 the handler is left with    *)
(* the drained channel.                                                    *)
(***************************************************************************)
CaptureRead == LoggingRan /\ _get_request_body(LoggingSelf, LoggingRequest).read

C4_CaptureNonDestructive ==
    (CaptureRead /\ handler_seen # <<>>) =>
        handler_seen[1].body = [ok |-> TRUE, bytes |-> request.body]

(***************************************************************************)
(* The gate, observed                                                      *)
(***************************************************************************)
GateIndex == CHOOSE i \in DOMAIN MiddlewareStack : MiddlewareStack[i] = "AuthMiddleware"

\* no stage behind the gate was entered
NothingBehindGate ==
    \A i \in (GateIndex + 1)..(Len(MiddlewareStack) + 1) : calls[StageAt(i)] = 0

GateResponse == returned["AuthMiddleware"][1]
Challenge == HasHeader(GateResponse, "WWW-Authenticate", <<"Bearer">>)
Header == request.authorization
ConfiguredPrefix == settings.api.auth.api_key.prefix
ConfiguredKey == settings.api.auth.api_key.api_key

(***************************************************************************)
(* C5: gate totality.  For every combination of scheme flags, exclusion    *)
(* per scheme and Authorization header, one dispatch ends in exactly one   *)
(* outcome: the next stage invoked exactly once and what it produced       *)
(* handed back, or a 401 and the next stage never invoked; never both, and *)
(* a dispatch that has not ended yet is waiting for the stage it invoked.  *)
(***************************************************************************)
C5_GateTotality ==
    /\ calls["AuthMiddleware"] <= 1
    /\ calls["call_next"] <= 1
    /\ returned["AuthMiddleware"] # <<>> =>
          \/ /\ calls["call_next"] = 1
             /\ calls[StageAt(GateIndex + 1)] = 1
             /\ received["AuthMiddleware"] # <<>>
             /\ returned["AuthMiddleware"] = received["AuthMiddleware"]
          \/ /\ GateRejected
             /\ NothingBehindGate
             /\ received["AuthMiddleware"] = <<>>
    /\ (GateDecided /\ returned["AuthMiddleware"] = <<>>) =>
          /\ calls["call_next"] = 1
          /\ pc.i > GateIndex \/ Returning("AuthMiddleware")
    /\ Done => returned["AuthMiddleware"] # <<>>

C5_Witness ==
    /\ Done
    /\ AuthSelf.api_key_enabled /\ AuthSelf.jwt_enabled
    /\ ApiKeyProtects /\ JwtProtects
    /\ Header.present
    /\ GateForwarded
    /\ GateResponse.kind = "response"

(***************************************************************************)
(* C6: without an Authorization header and with at least one scheme in     *)
(* force (an API-key scheme without a configured key is not in force): 401 *)
(* without WWW-Authenticate if the API-key scheme protects the path;       *)
(* otherwise 401 with WWW-Authenticate: Bearer if the token scheme         *)
(* protects it; otherwise forwarded.  A rejection invokes no handler.      *)
(***************************************************************************)
C6_MissingHeader ==
    (GateDecided /\ ~Header.present /\ (AuthSelf.api_key_enabled \/ AuthSelf.jwt_enabled)) =>
        IF ApiKeyProtects
        THEN GateRejected /\ ~HasHeaderNamed(GateResponse, "WWW-Authenticate")
             /\ NothingBehindGate
        ELSE IF JwtProtects
        THEN GateRejected /\ Challenge /\ NothingBehindGate
        ELSE GateForwarded /\ ~GateRejected

C6_Witness ==
    /\ GateDecided /\ ~Header.present
    /\ ApiKeyProtects /\ JwtProtects
    /\ GateRejected

(***************************************************************************)
(* C7: when the API-key scheme protects the path and the header starts     *)
(* with the configured prefix, the API-key scheme alone decides: forwarded *)
(* if and only if the rest of the header equals the configured key,        *)
(* otherwise 401; the token verifier is never called.                      *)
(***************************************************************************)
C7_ApiKeyDecides ==
    (GateDecided /\ ApiKeyProtects /\ Header.present
        /\ StartsWith(Header.value, ConfiguredPrefix)) =>
        /\ GateForwarded <=> (DropPrefix(Header.value, Len(ConfiguredPrefix)) = ConfiguredKey)
        /\ ~GateForwarded => (GateRejected /\ NothingBehindGate)
        /\ calls["verify"] = 0

C7_Witness ==
    /\ GateDecided /\ ApiKeyProtects /\ JwtProtects
    /\ Header = Authorization(ApiKeyPrefix \o KeyConfigured)
    /\ GateForwarded

(***************************************************************************)
(* C8: when the API-key block does not take the request, the token scheme  *)
(* protects the path and the header starts with "Bearer ": forwarded, with *)
(* the subject and the claims attached to the request for the handler, if  *)
(* and only if the verifier accepts the token; otherwise 401 with          *)
(* WWW-Authenticate: Bearer, nothing attached, no handler invoked.         *)
(***************************************************************************)
\* the one token that is well formed, signed with the key, unexpired and
\* carries a subject
VerifierAccepts(token) == token = TokenGood

C8_TokenDecides ==
    (GateDecided /\ Header.present
        /\ ~(ApiKeyProtects /\ StartsWith(Header.value, ConfiguredPrefix))
        /\ JwtProtects /\ StartsWith(Header.value, BearerPrefix)) =>
        IF VerifierAccepts(DropPrefix(Header.value, Len(BearerPrefix)))
        THEN /\ GateForwarded /\ ~GateRejected
             /\ state.user = << <<"admin">> >>
             /\ state.token_data = << [sub |-> <<"admin">>] >>
             /\ handler_seen # <<>> =>
                   /\ handler_seen[1].user = state.user
                   /\ handler_seen[1].token_data = state.token_data
        ELSE /\ GateRejected /\ Challenge /\ NothingBehindGate
             /\ state.user = <<>> /\ state.token_data = <<>>

C8_Witness ==
    /\ handler_seen # <<>>
    /\ JwtProtects /\ AuthSelf.api_key_enabled
    /\ Header = Authorization(BearerPrefix \o TokenGood)
    /\ handler_seen[1].user = << <<"admin">> >>

(***************************************************************************)
(* C9: on a path at least one scheme in force protects, a header whose     *)
(* prefix matches no scheme that is in force and protects the path is      *)
(* answered 401 and never forwarded, even when it holds a credential the   *)
(* other scheme would accept (a valid API key on a path excluded from the  *)
(* API-key scheme and protected by the token scheme).                      *)
(***************************************************************************)
C9_UnmatchedPrefixRejected ==
    (GateDecided /\ (ApiKeyProtects \/ JwtProtects) /\ Header.present
        /\ ~(ApiKeyProtects /\ StartsWith(Header.value, ConfiguredPrefix))
        /\ ~(JwtProtects /\ StartsWith(Header.value, BearerPrefix))) =>
        GateRejected /\ ~GateForwarded /\ NothingBehindGate

C9_Witness ==
    /\ GateDecided
    /\ AuthSelf.api_key_enabled /\ ~ApiKeyProtects /\ JwtProtects
    /\ Header = Authorization(ApiKeyPrefix \o KeyConfigured)
    /\ GateRejected

(***************************************************************************)
(* C10: every 401 of the gate for a request the token scheme protects      *)
(* carries WWW-Authenticate: Bearer, whichever branch rejected.            *)
(* Not so when the API-key scheme rejects: see C10_Amended.                *)
(***************************************************************************)
C10_Original == (GateRejected /\ JwtProtects) => Challenge

(***************************************************************************)
(* C10 as amended: a 401 of the gate for a request the token scheme        *)
(* protects carries WWW-Authenticate: Bearer, unless the API-key scheme    *)
(* protects the path too and the rejection is for a missing (or empty)     *)
(* header or for a wrong API key: those two carry no WWW-Authenticate.     *)
(***************************************************************************)
C10_Amended ==
    (GateRejected /\ JwtProtects) =>
        (Challenge <=>
            ~(ApiKeyProtects /\ (Falsy(Header) \/ StartsWith(Header.value, ConfiguredPrefix))))

C10_Witness ==
    /\ GateRejected /\ JwtProtects /\ ApiKeyProtects
    /\ Header = Authorization(BasicPrefix \o KeyConfigured)
    /\ Challenge

(***************************************************************************)
(* C11: when no scheme is in force (both flags off, or the API-key flag on *)
(* without a configured key and the token scheme off) the gate forwards    *)
(* every request, whatever its path and Authorization header; and an       *)
(* API-key scheme enabled without a key decides every request exactly as a *)
(* disabled one does, also when the token scheme is on.                    *)
(***************************************************************************)
ApiKeyFlagOff(api) == [api EXCEPT !.api_key.enabled = FALSE]

C11_NoSchemeForwards ==
    /\ (GateDecided /\ ~settings.api.auth.jwt.enabled
            /\ (~settings.api.auth.api_key.enabled \/ ConfiguredKey = KeyUnset)) =>
          (GateForwarded /\ ~GateRejected /\ calls["verify"] = 0)
    /\ (GateDecided /\ ConfiguredKey = KeyUnset) =>
          AuthDecision(AuthMiddlewareInit(settings.api.auth, <<>>), GatePath, Header)
              = AuthDecision(AuthMiddlewareInit(ApiKeyFlagOff(settings.api.auth), <<>>),
                             GatePath, Header)

C11_Witness ==
    /\ GateForwarded
    /\ settings.api.auth.api_key.enabled /\ ConfiguredKey = KeyUnset
    /\ ~settings.api.auth.jwt.enabled
    /\ Header = Authorization(BasicPrefix \o KeyConfigured)
    /\ GatePath = PathApiUsers

(***************************************************************************)
(* The methods called on their own, as the tests of path_match,            *)
(* is_path_excluded, _mask_sensitive_data and _truncate_body call them:    *)
(* the arguments are drawn at the start, one step applies the method.      *)
(***************************************************************************)
pipeline == << settings, request, scope_path, stream, replay, state, pc, response, received,
               returned, calls, entered, path_seen, logs, log_ctx, handler_seen, uuids >>

\* no request under way
IdleRequest ==
    /\ request = Request("GET", PathRoot, NoAuthorization, <<BodyEmpty, <<>>>>, <<>>, <<>>)
    /\ scope_path = PathRoot
    /\ stream = "unread"
    /\ replay = <<>>
    /\ state = [user |-> <<>>, token_data |-> <<>>]
    /\ pc = [i |-> 0, ph |-> "done"]
    /\ response = <<>>
    /\ received = [s \in Stages |-> <<>>]
    /\ returned = [s \in Stages |-> <<>>]
    /\ calls = [s \in Stages \cup {"verify", "call_next"} |-> 0]
    /\ entered = <<>>
    /\ path_seen = [s \in Stages |-> <<>>]
    /\ logs = <<>>
    /\ log_ctx = [excluded |-> FALSE, context |-> NoContext]
    /\ handler_seen = <<>>
    /\ uuids = 0

IdlePipeline ==
    /\ settings = Settings(FALSE, KeyUnset, <<>>, FALSE, <<>>, <<>>, TRUE, FALSE)
    /\ IdleRequest

UnitCall(fn, args) == [fn |-> fn, args |-> args, out |-> <<>>]

\* the method fn is about to be applied / has returned
Applying(fn) == unit.fn = fn /\ unit.out = <<>>
Applied(fn) == unit.fn = fn /\ unit.out # <<>>

Return(value) ==
    /\ unit' = [unit EXCEPT !.out = <<value>>]
    /\ UNCHANGED << pipeline, tasks, system_status >>

UPathHealthXY == <<"/", "h", "e", "a", "l", "t", "h", "/", "x", "/", "y">>
UPathHealthcheck == <<"/", "h", "e", "a", "l", "t", "h", "c", "h", "e", "c", "k">>
UPathApiHealth == <<"/", "a", "p", "i", "/", "h", "e", "a", "l", "t", "h">>
UPathApi == <<"/", "a", "p", "i">>
UPathApiSlash == <<"/", "a", "p", "i", "/">>
UPathApiUsersMe == <<"/", "a", "p", "i", "/", "u", "s", "e", "r", "s", "/", "m", "e">>
UPathUserPost == <<"/", "u", "s", "e", "r", "s", "/", "1", "2", "3", "/", "p", "o", "s", "t", "s", "/", "4", "5", "6">>

UPatUserPost == <<"/", "u", "s", "e", "r", "s", "/", "*", "/", "p", "o", "s", "t", "s", "/", "*">>

PathMatchCalls ==
    { UnitCall("path_match", <<path, pattern>>) :
         path \in
           { PathRoot, PathHealth, PathHealthSlash, UPathHealthXY, UPathHealthcheck, UPathApiHealth,
             UPathApi, UPathApiSlash, PathApiUsers, PathApiUsersSlash, UPathApiUsersMe,
             UPathUserPost, PathMetrics,
             \* /users/123/posts and /users//posts/456
             <<"/", "u", "s", "e", "r", "s", "/", "1", "2", "3", "/", "p", "o", "s", "t", "s">>,
             <<"/", "u", "s", "e", "r", "s", "/", "/", "p", "o", "s", "t", "s", "/", "4", "5", "6">>,
             \* /api/* (the star as a character of the path), /api//x and /some/test/path
             <<"/", "a", "p", "i", "/", "*">>,
             <<"/", "a", "p", "i", "/", "/", "x">>,
             <<"/", "s", "o", "m", "e", "/", "t", "e", "s", "t", "/", "p", "a", "t", "h">> },
         pattern \in
           { PatHealthAll, PatApiAny, UPatUserPost, PatMetrics,
             \* "/**", "/api/**", "/api/**/users"
             <<"/", "*", "*">>,
             <<"/", "a", "p", "i", "/", "*", "*">>,
             <<"/", "a", "p", "i", "/", "*", "*", "/", "u", "s", "e", "r", "s">>,
             \* "/*", "/api/*/", "/api/users"
             <<"/", "*">>,
             <<"/", "a", "p", "i", "/", "*", "/">>,
             <<"/", "a", "p", "i", "/", "u", "s", "e", "r", "s">>,
             \* "/api/*/x", "/*/*/*"
             <<"/", "a", "p", "i", "/", "*", "/", "x">>,
             <<"/", "*", "/", "*", "/", "*">>,
             \* "/*/**", "/api/*/**", "/some/*/**"
             <<"/", "*", "/", "*", "*">>,
             <<"/", "a", "p", "i", "/", "*", "/", "*", "*">>,
             <<"/", "s", "o", "m", "e", "/", "*", "/", "*", "*">> } }

PathMatchApply ==
    /\ Applying("path_match")
    /\ Return(path_match(unit.args[1], unit.args[2]))

\* the exclude_paths argument of the constructors, and exclude_patterns of
\* the configuration
ExclusionMethods == {"is_path_excluded_apikey", "is_path_excluded_jwt", "is_path_excluded"}

IsPathExcludedCalls ==
    { UnitCall(fn, <<path, exclude_paths, exclude_patterns>>) :
         fn \in ExclusionMethods,
         path \in
           { PathRoot, PathHealth, UPathHealthXY, UPathHealthcheck, UPathApi,
             PathApiUsers, PathApiUsersSlash, UPathApiUsersMe, UPathUserPost, PathMetrics },
         exclude_paths \in
           { <<>>, <<UPathApi>>, <<UPathApi, PathHealth>>, <<PathHealth, UPathApi>> },
         exclude_patterns \in
           { <<>>, <<PatApiAny>>, <<PatMetrics, PatHealthAll>>, <<PatHealthAll, PatMetrics>>,
             <<UPatUserPost, PatMetrics, PatApiAny>> } }

\* each middleware constructed with exclude_paths over a configuration whose
\* exclude_patterns for its policy is the given list
ApiKeyPolicy(exclude_paths, exclude_patterns) ==
    AuthMiddlewareInit(
        Settings(TRUE, KeyConfigured, exclude_patterns, TRUE, <<>>, <<>>, TRUE, FALSE).api.auth,
        exclude_paths)

JwtPolicy(exclude_paths, exclude_patterns) ==
    AuthMiddlewareInit(
        Settings(TRUE, KeyConfigured, <<>>, TRUE, exclude_patterns, <<>>, TRUE, FALSE).api.auth,
        exclude_paths)

LoggingPolicy(exclude_paths, exclude_patterns) ==
    LoggingMiddlewareInit(
        Settings(FALSE, KeyUnset, <<>>, FALSE, <<>>, exclude_patterns, TRUE, FALSE).logging,
        exclude_paths)

ExcludedUnder(fn, path, exclude_paths, exclude_patterns) ==
    IF fn = "is_path_excluded_apikey"
    THEN is_path_excluded_apikey(ApiKeyPolicy(exclude_paths, exclude_patterns), path)
    ELSE IF fn = "is_path_excluded_jwt"
    THEN is_path_excluded_jwt(JwtPolicy(exclude_paths, exclude_patterns), path)
    ELSE is_path_excluded(LoggingPolicy(exclude_paths, exclude_patterns), path)

IsPathExcludedApikeyApply ==
    /\ Applying("is_path_excluded_apikey")
    /\ Return(ExcludedUnder(unit.fn, unit.args[1], unit.args[2], unit.args[3]))

IsPathExcludedJwtApply ==
    /\ Applying("is_path_excluded_jwt")
    /\ Return(ExcludedUnder(unit.fn, unit.args[1], unit.args[2], unit.args[3]))

IsPathExcludedApply ==
    /\ Applying("is_path_excluded")
    /\ Return(ExcludedUnder(unit.fn, unit.args[1], unit.args[2], unit.args[3]))

\* logging.http.sensitive_fields as configured: the default list, a list
\* without "authorization", and a list written with a capital letter
SensitiveFieldSets == {DefaultSensitiveFields, {"password"}, {"Password"}}

\* the middleware constructed with sensitive_fields=...
WithSensitiveFields(sensitive_fields) ==
    [LoggingPolicy(<<>>, <<>>) EXCEPT !.sensitive_fields = sensitive_fields]

\* _mask_sensitive_data on every JSON value up to the depth explored
MaskSensitiveDataCalls ==
    { UnitCall("_mask_sensitive_data", <<data, sensitive_fields>>) :
         data \in JsonValues, sensitive_fields \in SensitiveFieldSets }

MaskSensitiveDataApply ==
    /\ Applying("_mask_sensitive_data")
    /\ Return(_mask_sensitive_data(WithSensitiveFields(unit.args[2]), unit.args[1]))

\* the names of query parameters and headers, in the letter cases explored
UnitFieldNames ==
    {"q", "password", "Password", "PASSWORD", "authorization", "Authorization", "token"}

\* one or two parameters (or headers), each with a value of its own
UnitFieldLists ==
    { << <<k, <<"v1">>>> >> : k \in UnitFieldNames }
        \cup { << <<k[1], <<"v1">>>>, <<k[2], <<"v2">>>> >> :
                  k \in {n \in UnitFieldNames \X UnitFieldNames : n[1] # n[2]} }

GetQueryParamsCalls ==
    { UnitCall("_get_query_params", <<query, sensitive_fields>>) :
         query \in UnitFieldLists, sensitive_fields \in SensitiveFieldSets }

GetQueryParamsApply ==
    /\ Applying("_get_query_params")
    /\ Return(_get_query_params(WithSensitiveFields(unit.args[2]), [query |-> unit.args[1]]))

GetHeadersCalls ==
    { UnitCall("_get_headers", <<headers, sensitive_fields, is_request>>) :
         headers \in UnitFieldLists, sensitive_fields \in SensitiveFieldSets,
         is_request \in BOOLEAN }

GetHeadersApply ==
    /\ Applying("_get_headers")
    /\ Return(_get_headers(WithSensitiveFields(unit.args[2]), unit.args[1], unit.args[3]))

\* _truncate_body on every text over two letters up to MaxTextLen, under
\* every max_body_length up to MaxLimit
MaxTextLen == 4
MaxLimit == 3

RECURSIVE TextsOfLength(_)
TextsOfLength(n) ==
    IF n = 0 THEN {<<>>}
    ELSE {Append(t, c) : t \in TextsOfLength(n - 1), c \in {"a", "b"}}


TruncateBodyCalls ==
    { UnitCall("_truncate_body", <<body, max_body_length>>) :
         body \in UNION {TextsOfLength(n) : n \in 0..MaxTextLen},
         max_body_length \in 0..MaxLimit }

TruncateBodyApply ==
    /\ Applying("_truncate_body")
    /\ Return(_truncate_body([LoggingPolicy(<<>>, <<>>) EXCEPT !.max_body_size = unit.args[2]],
                             unit.args[1]))

UnitCalls ==
    PathMatchCalls \cup IsPathExcludedCalls \cup MaskSensitiveDataCalls \cup TruncateBodyCalls
        \cup GetQueryParamsCalls \cup GetHeadersCalls

UnitInit ==
    /\ IdlePipeline
    /\ unit \in UnitCalls
    /\ tasks = NoTasks
    /\ system_status = SystemStatus__init__

UnitNext ==
    \/ PathMatchApply
    \/ IsPathExcludedApikeyApply
    \/ IsPathExcludedJwtApply
    \/ IsPathExcludedApply
    \/ MaskSensitiveDataApply
    \/ TruncateBodyApply
    \/ GetQueryParamsApply
    \/ GetHeadersApply

UnitSpec == UnitInit /\ [][UnitNext]_vars

(***************************************************************************)
(* C12: for a pattern that contains '/**', with base the text of the       *)
(* pattern before its first '/**', path_match(path, pattern) is true       *)
(* exactly when path = base or path starts with base + '/'.  '/health/**'  *)
(* matches '/health', '/health/' and '/health/x/y', not '/healthcheck' or  *)
(* '/api/health'.                                                          *)
(***************************************************************************)
\* p is the text of s up to some position
IsPrefixOf(p, s) == \E n \in 0..Len(s) : SubSeq(s, 1, n) = p

\* the bases of a pattern: what stands before an occurrence of w with no
\* occurrence of w beginning further left
BaseBefore(w, pattern) ==
    CHOOSE b \in {SubSeq(pattern, 1, n) : n \in 0..Len(pattern)} :
        /\ IsPrefixOf(b \o w, pattern)
        /\ \A m \in 0..(Len(b) - 1) : ~IsPrefixOf(SubSeq(pattern, 1, m) \o w, pattern)

HasRecursiveWildcard(pattern) ==
    \E n \in 0..Len(pattern) : IsPrefixOf(SubSeq(pattern, 1, n) \o <<"/", "*", "*">>, pattern)

HasSingleWildcard(pattern) ==
    \E n \in 0..Len(pattern) : IsPrefixOf(SubSeq(pattern, 1, n) \o <<"/", "*">>, pattern)

\* the positions of '/' in s, and the text between two neighbouring ones
SlashesOf(s) == {i \in 1..Len(s) : s[i] = "/"}
SegmentEnds(s) == SlashesOf(s) \cup (IF s # <<>> /\ s[Len(s)] = "/" THEN {} ELSE {Len(s) + 1})
SegmentCount(s) == Cardinality(SegmentEnds(s))
Segment(s, k) ==
    LET end == CHOOSE e \in SegmentEnds(s) : Cardinality({x \in SegmentEnds(s) : x <= e}) = k
        begin == IF k = 1 THEN 0
                 ELSE CHOOSE b \in SegmentEnds(s) :
                          Cardinality({x \in SegmentEnds(s) : x <= b}) = k - 1
    IN  SubSeq(s, begin + 1, end - 1)

C13_SingleWildcard ==
    (Applied("path_match") /\ HasSingleWildcard(unit.args[2])
        /\ ~HasRecursiveWildcard(unit.args[2])) =>
        LET path == unit.args[1]
            pattern == unit.args[2]
        IN  /\ (path # <<"/">> /\ path # <<>> /\ path[Len(path)] = "/") => ~unit.out[1]
            /\ unit.out[1] =>
                  /\ SegmentCount(path) = SegmentCount(pattern)
                  /\ \A k \in 1..SegmentCount(pattern) :
                        Segment(pattern, k) # <<"*">> => Segment(path, k) = Segment(pattern, k)
            /\ pattern = PatApiAny =>
                  /\ path = PathApiUsers => unit.out[1]
                  /\ path \in {UPathApi, UPathApiSlash, UPathApiUsersMe, PathApiUsersSlash}
                        => ~unit.out[1]
            /\ (pattern = UPatUserPost /\ path = UPathUserPost) => unit.out[1]

C13_Witness ==
    /\ Applied("path_match")
    /\ unit.args = <<UPathUserPost, UPatUserPost>>
    /\ unit.out = <<TRUE>>

RECURSIVE MaskedFrom(_, _, _)
MaskedFrom(fields, original, masked) ==
    IF original.t = "obj" THEN
        /\ masked.t = "obj"
        /\ DOMAIN masked.v = DOMAIN original.v
        /\ \A i \in DOMAIN original.v :
              /\ masked.v[i][1] = original.v[i][1]
              /\ IF LowerAtom(original.v[i][1]) \in fields
                 THEN masked.v[i][2] = [t |-> "str", v |-> <<"******">>]
                 ELSE MaskedFrom(fields, original.v[i][2], masked.v[i][2])
    ELSE IF original.t = "arr" THEN
        /\ masked.t = "arr"
        /\ DOMAIN masked.v = DOMAIN original.v
        /\ \A i \in DOMAIN original.v : MaskedFrom(fields, original.v[i], masked.v[i])
    ELSE masked = original

C15_MaskingIdempotentTotal ==
    Applied("_mask_sensitive_data") =>
        LET self == WithSensitiveFields(unit.args[2])
        IN  /\ MaskedFrom(self.sensitive_fields, unit.args[1], unit.out[1])
            /\ _mask_sensitive_data(self, unit.out[1]) = unit.out[1]

C15_Witness ==
    /\ Applied("_mask_sensitive_data")
    /\ unit.args[1] = Arr(<< Obj(<< <<"Password", Str(SecretJson)>> >>) >>)
    /\ unit.out[1] = Arr(<< Obj(<< <<"Password", Str(MaskToken)>> >>) >>)

(***************************************************************************)
(* C16: the truncation law.  A body longer than the configured maximum is  *)
(* logged as its first max characters followed by the marker               *)
(* '... [truncated]', max + 15 characters in all; a body of at most max    *)
(* characters is logged as it is.                                          *)
(***************************************************************************)
MarkerLength == 15

C16_TruncationLaw ==
    Applied("_truncate_body") =>
        LET body == unit.args[1]
            max == unit.args[2]
            logged == unit.out[1]
        IN  IF Len(body) > max
            THEN /\ Len(logged) = max + MarkerLength
                 /\ \A i \in 1..max : logged[i] = body[i]
                 /\ SubSeq(logged, max + 1, Len(logged))
                       = <<".", ".", ".", " ", "[", "t", "r", "u", "n", "c", "a", "t", "e", "d", "]">>
            ELSE logged = body

C16_Witness ==
    /\ Applied("_truncate_body")
    /\ unit.args = << <<"a", "b", "b", "a">>, 3 >>
    /\ Len(unit.out[1]) = 18

(***************************************************************************)
(* The logging middleware, observed                                        *)
(***************************************************************************)
LogIndex ==
    CHOOSE i \in DOMAIN MiddlewareStack : MiddlewareStack[i] = "RequestResponseLoggingMiddleware"

\* the stage the logging middleware's call_next enters
LogNext == StageAt(LogIndex + 1)

LogEntered == calls["RequestResponseLoggingMiddleware"] = 1
LogForwarded == calls[LogNext] = 1 \/ Calling(LogNext)
LogReturned == returned["RequestResponseLoggingMiddleware"] # <<>>

\* the path the logging middleware found is one its configuration excludes
LogPathExcluded ==
    LET path == path_seen["RequestResponseLoggingMiddleware"][1]
        exclude_patterns == settings.logging.http.exclude_patterns
    IN  \E i \in DOMAIN exclude_patterns : path_match(path, exclude_patterns[i])

(***************************************************************************)
(* C17: per request the logging middleware handles: on a path excluded     *)
(* from logging it emits no record, adds no X-Request-ID header and        *)
(* forwards the request; otherwise it emits exactly one 'started' record   *)
(* before the next stage is invoked and exactly one end record,            *)
(* 'completed' or 'failed' and never both, after the next stage returned   *)
(* or raised.                                                              *)
(***************************************************************************)
C17_LogLifecycle ==
    /\ calls["RequestResponseLoggingMiddleware"] <= 1
    /\ ~LogEntered => logs = <<>>
    /\ LogEntered =>
          IF LogPathExcluded
          THEN /\ logs = <<>>
               /\ LogForwarded
               /\ LogReturned =>
                     /\ returned["RequestResponseLoggingMiddleware"]
                           = returned[LogNext]
                        \/ returned["RequestResponseLoggingMiddleware"]
                           = <<call_next_result(returned[LogNext][1])>>
                     /\ ~HasHeaderNamed(returned["RequestResponseLoggingMiddleware"][1],
                                        "X-Request-ID")
          ELSE /\ Len(logs) >= 1
               /\ logs[1].message = "started"
               /\ LogForwarded
               /\ returned[LogNext] = <<>> => Len(logs) = 1
               /\ LogReturned =>
                     /\ Len(logs) = 2
                     /\ logs[2].message
                           = IF returned[LogNext][1].kind = "exception"
                             THEN "failed" ELSE "completed"

C17_Witness ==
    /\ LogEntered /\ LogReturned /\ ~LogPathExcluded
    /\ Len(logs) = 2
    /\ logs[2].message = "completed"
    /\ HasHeaderNamed(returned["RequestResponseLoggingMiddleware"][1], "X-Request-ID")

(***************************************************************************)
(* C18: when the next stage raises for a request on a path not excluded,   *)
(* the logging middleware emits exactly one 'failed' record with status    *)
(* 500, the elapsed time and the description of the error, emits no        *)
(* 'completed' record, and raises the same error to its caller.            *)
(***************************************************************************)
C18_FailedRecord ==
    (LogEntered /\ ~LogPathExcluded /\ LogReturned
        /\ returned[LogNext][1].kind = "exception") =>
        /\ Len(logs) = 2
        /\ logs[1].message = "started"
        /\ logs[2].message = "failed"
        /\ logs[2].status_code = <<500>>
        /\ logs[2].process_time_ms # <<>>
        /\ logs[2].error = <<returned[LogNext][1].error>>
        /\ returned["RequestResponseLoggingMiddleware"] = returned[LogNext]

C18_Witness ==
    /\ LogEntered /\ LogReturned /\ ~LogPathExcluded
    /\ returned[LogNext][1].kind = "exception"
    /\ returned[LogNext][1].error = <<"handler error">>
    /\ logs[2].message = "failed"

(***************************************************************************)
(* C19: a failure while reading, decoding, parsing or masking a body for   *)
(* logging never changes the outcome of the request: the capture yields no *)
(* body, the records are still emitted without the body field, the next    *)
(* stage is still invoked and the handler runs as without the capture.     *)
(* The code fails to decode a body that is no UTF-8 after it has drained   *)
(* the receive channel and before it replaces request._receive: the        *)
(* records are emitted and the next stage invoked, but the handler is left *)
(* with the drained channel.                                               *)
(***************************************************************************)
\* the request is one _is_file_request takes for a file upload
FileSignalled ==
    LET content_type == Lower(request.content_type)
        path == Lower(path_seen["RequestResponseLoggingMiddleware"][1])
    IN  \/ \E file_type \in FILE_CONTENT_TYPES : IsPrefixOf(file_type, content_type)
        \/ \E keyword \in FileKeywords :
              \E n \in 1..(Len(path) - Len(keyword) + 1) :
                  SubSeq(path, n, n + Len(keyword) - 1) = keyword

CaptureOn == LogEntered /\ ~LogPathExcluded /\ settings.logging.http.request_body

UndecodableBody == \E i \in DOMAIN request.body : request.body[i] \in {"\\xff", "\\xfe"}

C19_CaptureFailureHarmless ==
    (CaptureOn /\ ~FileSignalled /\ UndecodableBody) =>
        /\ logs[1].message = "started"
        /\ logs[1].request_body = <<>>
        /\ LogForwarded
        /\ handler_seen # <<>> => handler_seen[1].body = [ok |-> TRUE, bytes |-> request.body]
        /\ LogReturned => Len(logs) = 2
        /\ (LogReturned /\ returned[LogNext][1].kind = "exception") =>
              returned[LogNext][1].error # <<"ClientDisconnect">>

(***************************************************************************)
(* C20: when a request is signalled as a file upload (its content type     *)
(* starts with one of the listed types, or its path contains an upload,    *)
(* file, download or attachment keyword), body capture, when it is on,     *)
(* returns only the JSON descriptor with the 'content not logged' marker;  *)
(* the logging middleware never reads the body stream of such a request,   *)
(* so the handler finds it unread and no record carries its bytes.         *)
(***************************************************************************)
\* the descriptors of an upload: type, the content type as sent (lowercase),
\* and possibly a file name taken from the path
UploadDescriptors ==
    LET type == <<"type", [t |-> "str", v |-> <<"file_upload">>]>>
        content_type == <<"content_type", [t |-> "str", v |-> Lower(request.content_type)]>>
        message == <<"message", [t |-> "str", v |-> <<"<file content not logged>">>]>>
        names == {SubSeq(request.path, n, m) :
                     n \in 1..Len(request.path), m \in 0..Len(request.path)}
        details == {[t |-> "obj", v |-> <<type, content_type>>]}
                   \cup {[t |-> "obj",
                          v |-> <<type, content_type, <<"filename", [t |-> "str", v |-> name]>> >>] :
                            name \in names}
    IN  {json_dumps([t |-> "obj", v |-> << <<"file_upload_info", d>>, message >>]) :
            d \in details}

C20_FileUploadNotRead ==
    (LogEntered /\ ~LogPathExcluded /\ FileSignalled) =>
        /\ replay = <<>>
        /\ handler_seen = <<>> => stream = "unread"
        /\ handler_seen # <<>> => handler_seen[1].body = [ok |-> TRUE, bytes |-> request.body]
        /\ \A i \in DOMAIN logs :
              IF settings.logging.http.request_body
              THEN /\ Len(logs[i].request_body) = 1
                   /\ logs[i].request_body[1] \in UploadDescriptors
              ELSE logs[i].request_body = <<>>

C20_Witness ==
    /\ CaptureOn /\ FileSignalled /\ LogReturned
    /\ request.path = PathUpload
    /\ request.body = BodyJsonFlat
    /\ request.content_type = ContentTypeJson
    /\ Len(logs) = 2

(***************************************************************************)
(* The trailing-slash middleware, observed                                 *)
(***************************************************************************)
TrailingStage == "TrailingSlashMiddleware"
TrailingEntered == path_seen[TrailingStage] # <<>>
TrailingPath == path_seen[TrailingStage][1]
HasTrailingSlash(path) == path # <<Slash>> /\ EndsWith(path, <<Slash>>)

\* the longest prefix of the path that does not end with a slash
WithoutTrailingSlashes(path) ==
    LET n == CHOOSE k \in 0..Len(path) :
                 /\ k > 0 => path[k] # Slash
                 /\ \A j \in (k + 1)..Len(path) : path[j] = Slash
    IN  SubSeq(path, 1, n)

HeaderValue(r, name) ==
    r.headers[CHOOSE i \in DOMAIN r.headers : r.headers[i][1] = name][2]

\* the stage behind the trailing-slash middleware is at work or has been
TrailingForwarded == TrailingEntered /\ (Calling("endpoint") \/ calls["endpoint"] = 1)

SameForClient(a, b) ==
    /\ a.kind = b.kind
    /\ a.status_code = b.status_code
    /\ a.headers = b.headers
    /\ a.body = b.body
    /\ a.error = b.error

(***************************************************************************)
(* C21: in redirect mode the middleware answers a path other than "/"      *)
(* that ends with "/" at once with a 301 whose Location is the request URL *)
(* (query string included) with the path freed of its trailing slashes,    *)
(* and the stage behind it never runs; "/" and a path without trailing     *)
(* slash are forwarded and no 301 comes back for them.                     *)
(***************************************************************************)
C21_RedirectMode ==
    (settings.redirect /\ TrailingEntered) =>
        IF HasTrailingSlash(TrailingPath)
        THEN /\ returned[TrailingStage] # <<>>
             /\ returned[TrailingStage][1].kind = "response"
             /\ returned[TrailingStage][1].status_code = 301
             /\ HasHeaderNamed(returned[TrailingStage][1], "location")
             /\ HeaderValue(returned[TrailingStage][1], "location")
                    = [path |-> WithoutTrailingSlashes(TrailingPath), query |-> request.query]
             /\ calls["endpoint"] = 0
             /\ handler_seen = <<>>
             /\ Done => response[1].status_code = 301
        ELSE /\ TrailingForwarded
             /\ returned[TrailingStage] # <<>> =>
                    /\ returned[TrailingStage][1].status_code # 301
                    /\ ~HasHeaderNamed(returned[TrailingStage][1], "location")

C21_Witness ==
    /\ Done
    /\ settings.redirect
    /\ request.path = PathApiUsersSlash
    /\ request.query # <<>>
    /\ response[1].status_code = 301
    /\ calls["endpoint"] = 0

(***************************************************************************)
(* C22: in internal mode the middleware forwards every request exactly     *)
(* once and never answers with a 301; the stage behind it finds the path   *)
(* without its trailing slashes ("/" and a path without trailing slash as  *)
(* sent); what the middleware returns is for the client what the stage     *)
(* behind it returned; and its dispatch changes nothing of the request but *)
(* the routing path.                                                       *)
(***************************************************************************)
C22_InternalState ==
    (~settings.redirect /\ TrailingEntered) =>
        /\ TrailingForwarded
        /\ calls[TrailingStage] = 1
        /\ calls["endpoint"] <= 1
        /\ path_seen["endpoint"] # <<>> =>
              /\ path_seen["endpoint"][1] = IF HasTrailingSlash(TrailingPath)
                                            THEN WithoutTrailingSlashes(TrailingPath)
                                            ELSE TrailingPath
              /\ handler_seen[1].path = path_seen["endpoint"][1]
        /\ returned[TrailingStage] # <<>> =>
              /\ SameForClient(returned[TrailingStage][1], returned["endpoint"][1])
              /\ returned[TrailingStage][1].status_code # 301

C22_InternalFrame ==
    (Calling(TrailingStage) /\ ~settings.redirect) =>
        /\ UNCHANGED << request, stream, replay, state, settings, logs >>
        /\ ~HasTrailingSlash(scope_path) => UNCHANGED scope_path

C22_InternalMode == []C22_InternalState /\ [][C22_InternalFrame]_vars

C22_Witness ==
    /\ Done
    /\ ~settings.redirect
    /\ request.path = PathApiUsersSlash
    /\ path_seen["endpoint"] = <<PathApiUsers>>
    /\ response[1].status_code = 200
    /\ scope_path = PathApiUsers

(***************************************************************************)
(* C23: for every path other than "/" that ends with "/", the normalized   *)
(* path (the Location path in redirect mode, the routing path in internal  *)
(* mode) is the request path without its last character, and is not empty. *)
(* The code computes it with rstrip("/"), which removes every trailing     *)
(* slash: "/foo//" becomes "/foo" and "//" becomes the empty path.         *)
(***************************************************************************)
NormalizedPathSeen ==
    IF settings.redirect
    THEN HeaderValue(returned[TrailingStage][1], "location").path
    ELSE scope_path

C23_StripsOneSlash ==
    (TrailingEntered /\ HasTrailingSlash(TrailingPath)) =>
        /\ NormalizedPathSeen = SubSeq(TrailingPath, 1, Len(TrailingPath) - 1)
        /\ NormalizedPathSeen # <<>>

(***************************************************************************)
(* C24: under a pattern that contains '/*' and no '/**', a path with an    *)
(* empty segment at the position of a '*' segment of the pattern does not  *)
(* match ('/api//x' does not match '/api/*/x').                            *)
(* The loop of path_match skips a '*' segment without looking at the path  *)
(* segment: an empty segment matches as any other does.                    *)
(***************************************************************************)
C24_StarNeedsNonEmptySegment ==
    (Applied("path_match") /\ HasSingleWildcard(unit.args[2])
        /\ ~HasRecursiveWildcard(unit.args[2])) =>
        LET path == unit.args[1]
            pattern == unit.args[2]
        IN  (\E k \in 1..SegmentCount(pattern) :
                /\ k <= SegmentCount(path)
                /\ Segment(pattern, k) = <<"*">>
                /\ Segment(path, k) = <<>>) => ~unit.out[1]

(***************************************************************************)
(* C25: a pattern that contains '/**' is matched by the recursive rule     *)
(* alone, also when a '*' segment stands before the '/**' ('/*/**',        *)
(* '/api/*/**'): path_match returns a boolean for every path, and it       *)
(* returns TRUE only for a path that begins with the text before '/**'     *)
(* character for character, the '*' included, so the '*' stands for no     *)
(* other segment as it would under the single-segment rule.                *)
(***************************************************************************)
StarBeforeRecursive(pattern) ==
    /\ HasRecursiveWildcard(pattern)
    /\ \E i \in 1..Len(BaseBefore(<<"/", "*", "*">>, pattern)) : pattern[i] = "*"

C26_QueryMaskedAsHeaders ==
    Applied("_get_query_params") =>
        LET query == unit.args[1]
            fields == unit.args[2]
            params == unit.out[1]
        IN  /\ DOMAIN params = DOMAIN query
            /\ \A i \in DOMAIN query :
                  /\ params[i][1] = query[i][1]
                  /\ params[i][2] =
                        IF \/ LowerAtom(query[i][1]) \in fields
                           \/ LowerAtom(query[i][1]) = "authorization"
                        THEN <<"******">>
                        ELSE query[i][2]
            /\ params = _get_headers(WithSensitiveFields(fields), query, TRUE)

(***************************************************************************)
(* C27: membership in the sensitive-field set ignores letter case on both  *)
(* sides: a JSON key, a query key or a header name is masked whenever it   *)
(* equals a configured field name up to letter case (a configured          *)
(* 'Password' masks 'password', a configured 'password' masks 'PASSWORD'). *)
(* The code lowercases the key and looks it up in the set as configured:   *)
(* a field configured with a capital letter masks nothing.                 *)
(***************************************************************************)
SameIgnoringCase(fields, key) == \E f \in fields : LowerAtom(f) = LowerAtom(key)

C27_CaseInsensitiveMembership ==
    /\ (Applied("_get_query_params") \/ (Applied("_get_headers") /\ unit.args[3])) =>
          \A i \in DOMAIN unit.args[1] :
              SameIgnoringCase(unit.args[2], unit.args[1][i][1]) =>
                  unit.out[1][i][2] = <<"******">>
    /\ (Applied("_mask_sensitive_data") /\ unit.args[1].t = "obj") =>
          \A i \in DOMAIN unit.args[1].v :
              SameIgnoringCase(unit.args[2], unit.args[1].v[i][1]) =>
                  unit.out[1].v[i][2] = Str(<<"******">>)

(***************************************************************************)
(* C28: with response-body logging on, for every response that is no file  *)
(* response and has a non-empty body, the 'completed' record carries the   *)
(* captured body: the masked and truncated JSON when the body parses as    *)
(* JSON, the truncated body text otherwise.                                *)
(* _capture_response_body reads the body of a LoggableJSONResponse or a    *)
(* JSONResponse only.  What call_next returns is a streaming response      *)
(* whatever the handler returned, so in dispatch neither branch is taken   *)
(* and the record carries no response body.                                *)
(***************************************************************************)
C28_ResponseBodyCaptured ==
    (LogEntered /\ LogReturned /\ ~LogPathExcluded
        /\ settings.logging.http.response_body
        /\ received["RequestResponseLoggingMiddleware"][1].kind = "response"
        /\ ~_is_file_response(received["RequestResponseLoggingMiddleware"][1])
        /\ received["RequestResponseLoggingMiddleware"][1].body # <<>>) =>
        LET body == received["RequestResponseLoggingMiddleware"][1].body
            parsed == json_loads(body)
        IN  /\ logs[2].message = "completed"
            /\ logs[2].response_body =
                  IF parsed.ok
                  THEN <<_truncate_body(LoggingSelf,
                                        json_dumps(_mask_sensitive_data(LoggingSelf, parsed.value)))>>
                  ELSE <<_truncate_body(LoggingSelf, body)>>

(***************************************************************************)
(* RequestResponseLoggingMiddleware.dispatch for several requests at once. *)
(* Each request is dispatched by a coroutine of its own; the event loop    *)
(* switches between them where dispatch awaits: reading the body, and      *)
(* call_next.  The locals of dispatch (request_id, logging_context,        *)
(* response) belong to the task; the middleware object, the logger and the *)
(* uuid generator are shared.                                              *)
(***************************************************************************)
MaxInFlight == 2

\* requests told apart by method, path, query string, headers and captured
\* body (the first is an upload, logged by its descriptor); the last one is
\* to a path excluded from logging
ConcurrentRequests ==
    { Request("POST", PathUpload, NoAuthorization,
              << BodyJsonFlat, <<"multipart/form-data", "; boundary=x">> >>,
              << <<"q", <<"x">>>> >>, <<>>),
      Request("GET", PathApiUsersSlash, NoAuthorization, <<BodyEmpty, <<>>>>,
              << <<"password", <<"s-query">>>> >>, << <<"token", <<"s-header">>>> >>),
      Request("GET", PathHealth, NoAuthorization, <<BodyEmpty, <<>>>>, <<>>, <<>>) }

\* a dispatch coroutine before its first statement
DispatchTask(req) ==
    [ request |-> req, pc |-> "dispatch", excluded |-> FALSE, request_id |-> 0,
      logging_context |-> NoContext, response |-> <<>>, result |-> <<>> ]

ConcurrentInit ==
    /\ settings = Settings(FALSE, KeyUnset, <<>>, FALSE, <<>>, <<PatHealthAll, PatMetrics>>,
                           TRUE, FALSE)
    /\ IdleRequest
    /\ unit = NoUnit
    /\ system_status = SystemStatus__init__
    /\ tasks \in [1..MaxInFlight -> {DispatchTask(req) : req \in ConcurrentRequests}]

\* dispatch with request_id and logging_context kept on the middleware
\* object: every dispatch under way then works with the latest ones
DispatchLogStarted_OnSelf(t) ==
    /\ tasks[t].pc = "_get_request_body"
    /\ LET self == LoggingMiddlewareInit(settings.logging, <<>>)
           req == tasks[t].request
           logging_context ==
               [ request_id |-> tasks[t].request_id,
                 method |-> req.method,
                 path |-> req.path,
                 query_params |-> _get_query_params(self, req),
                 headers |-> _get_headers(self, RequestHeaders(req), TRUE),
                 request_body |-> _get_request_body(self, req).text ]
       IN  /\ logs' = Append(logs, LogRecord("started", logging_context, <<>>, <<>>, <<>>))
           /\ tasks' = [u \in DOMAIN tasks |->
                           IF u = t
                           THEN [tasks[u] EXCEPT !.pc = "call_next",
                                                 !.logging_context = logging_context]
                           ELSE IF tasks[u].excluded THEN tasks[u]
                           ELSE [tasks[u] EXCEPT !.request_id = tasks[t].request_id,
                                                 !.logging_context = logging_context]]
    /\ UNCHANGED << settings, request, scope_path, stream, replay, state, pc, response, received,
                    returned, calls, entered, path_seen, log_ctx, handler_seen, uuids, unit,
                    system_status >>

\* lines 361-372: the exclusion test, the request id, and the call of
\* _get_request_body up to its await
DispatchBegin(t) ==
    /\ tasks[t].pc = "dispatch"
    /\ LET self == LoggingMiddlewareInit(settings.logging, <<>>)
       IN  IF is_path_excluded(self, tasks[t].request.path)
           THEN /\ tasks' = [tasks EXCEPT ![t].pc = "call_next", ![t].excluded = TRUE]
                /\ UNCHANGED uuids
           ELSE /\ uuids' = uuids + 1
                /\ tasks' = [tasks EXCEPT ![t].pc = "_get_request_body",
                                          ![t].request_id = uuids + 1]
    /\ UNCHANGED << settings, request, scope_path, stream, replay, state, pc, response, received,
                    returned, calls, entered, path_seen, logs, log_ctx, handler_seen, unit,
                    system_status >>

\* lines 372-397: the body captured, the context built, the 'started'
\* record, and call_next up to its await
DispatchLogStarted(t) ==
    /\ tasks[t].pc = "_get_request_body"
    /\ LET self == LoggingMiddlewareInit(settings.logging, <<>>)
           req == tasks[t].request
           logging_context ==
               [ request_id |-> tasks[t].request_id,
                 method |-> req.method,
                 path |-> req.path,
                 query_params |-> _get_query_params(self, req),
                 headers |-> _get_headers(self, RequestHeaders(req), TRUE),
                 request_body |-> _get_request_body(self, req).text ]
       IN  /\ logs' = Append(logs, LogRecord("started", logging_context, <<>>, <<>>, <<>>))
           /\ tasks' = [tasks EXCEPT ![t].pc = "call_next",
                                     ![t].logging_context = logging_context]
    /\ UNCHANGED << settings, request, scope_path, stream, replay, state, pc, response, received,
                    returned, calls, entered, path_seen, log_ctx, handler_seen, uuids, unit,
                    system_status >>

\* the stages behind call_next answer the task's request: a response, which
\* names the request it answers, or an exception
Downstream(t) ==
    /\ tasks[t].pc = "call_next"
    /\ \E outcome \in {"return", "raise"} :
          tasks' = [tasks EXCEPT
                       ![t].pc = "returned",
                       ![t].response =
                           IF outcome = "raise" THEN <<Raised(<<"handler error">>)>>
                           ELSE <<call_next_result(
                                    SetHeader(EndpointResponse, "x-answer-to", <<t>>))>>]
    /\ UNCHANGED << settings, request, scope_path, stream, replay, state, pc, response, received,
                    returned, calls, entered, path_seen, logs, log_ctx, handler_seen, uuids,
                    unit, system_status >>

\* lines 363, 400-430 and 432-449: the response passed on, or the
\* 'completed' record and the X-Request-ID header, or the 'failed' record
DispatchReturn(t) ==
    /\ tasks[t].pc = "returned"
    /\ LET self == LoggingMiddlewareInit(settings.logging, <<>>)
           r == tasks[t].response[1]
       IN  IF tasks[t].excluded
           THEN /\ tasks' = [tasks EXCEPT ![t].pc = "done", ![t].result = <<r>>]
                /\ UNCHANGED logs
           ELSE IF r.kind = "response"
           THEN /\ logs' = Append(logs, LogRecord("completed", tasks[t].logging_context,
                                      <<r.status_code>>, _capture_response_body(self, r), <<>>))
                /\ tasks' = [tasks EXCEPT
                                ![t].pc = "done",
                                ![t].result =
                                    <<SetHeader(r, "X-Request-ID",
                                                <<tasks[t].logging_context.request_id>>)>>]
           ELSE /\ logs' = Append(logs, LogRecord("failed", tasks[t].logging_context,
                                      <<500>>, <<>>, <<r.error>>))
                /\ tasks' = [tasks EXCEPT ![t].pc = "done", ![t].result = <<r>>]
    /\ UNCHANGED << settings, request, scope_path, stream, replay, state, pc, response, received,
                    returned, calls, entered, path_seen, log_ctx, handler_seen, uuids, unit,
                    system_status >>

ConcurrentNext ==
    \E t \in DOMAIN tasks :
        \/ DispatchBegin(t)
        \/ DispatchLogStarted(t)
        \/ Downstream(t)
        \/ DispatchReturn(t)

ConcurrentSpec == ConcurrentInit /\ [][ConcurrentNext]_vars

(***************************************************************************)
(* C29: however the dispatches of several requests interleave: the request *)
(* ids drawn are pairwise different; every record carries the id, method,  *)
(* path, masked query string and headers and captured body of one and the  *)
(* same request; a request that is not excluded and completes normally has *)
(* exactly one 'started' and one 'completed' record under its id, and its  *)
(* response, the one the handler gave for this request, carries that id as *)
(* X-Request-ID.                                                           *)
(***************************************************************************)
\* each request with what a record of it has to carry, under the
\* configuration of ConcurrentInit
RecordData ==
    LET self == LoggingMiddlewareInit(
                    Settings(FALSE, KeyUnset, <<>>, FALSE, <<>>, <<PatHealthAll, PatMetrics>>,
                             TRUE, FALSE).logging, <<>>)
    IN  { << req, [ method |-> req.method,
                    path |-> req.path,
                    query_params |-> _get_query_params(self, req),
                    headers |-> _get_headers(self, RequestHeaders(req), TRUE),
                    request_body |-> _get_request_body(self, req).text ] >> :
             req \in ConcurrentRequests }

RecordsOf(t, message) ==
    {i \in DOMAIN logs : logs[i].request_id = tasks[t].request_id /\ logs[i].message = message}

C29_RequestIdJoinsRecords ==
    tasks # NoTasks =>
        /\ \A t, u \in DOMAIN tasks :
              (t # u /\ tasks[t].request_id # 0) => tasks[t].request_id # tasks[u].request_id
        /\ \A i \in DOMAIN logs : \E t \in DOMAIN tasks :
              /\ tasks[t].request_id # 0
              /\ logs[i].request_id = tasks[t].request_id
              /\ << tasks[t].request,
                     [ method |-> logs[i].method,
                       path |-> logs[i].path,
                       query_params |-> logs[i].query_params,
                       headers |-> logs[i].headers,
                       request_body |-> logs[i].request_body ] >> \in RecordData
        /\ \A t \in DOMAIN tasks :
              (tasks[t].pc = "done" /\ tasks[t].result[1].kind = "response") =>
                  /\ HasHeader(tasks[t].result[1], "x-answer-to", <<t>>)
                  /\ ~tasks[t].excluded =>
                        /\ Cardinality(RecordsOf(t, "started")) = 1
                        /\ Cardinality(RecordsOf(t, "completed")) = 1
                        /\ HasHeader(tasks[t].result[1], "X-Request-ID", <<tasks[t].request_id>>)
                        /\ \A i \in RecordsOf(t, "completed") :
                              logs[i].status_code = <<tasks[t].result[1].status_code>>

C29_Witness ==
    /\ tasks # NoTasks
    /\ \A t \in DOMAIN tasks : tasks[t].pc = "done" /\ tasks[t].result[1].kind = "response"
    /\ tasks[1].request.path = PathUpload
    /\ tasks[2].request.path = PathApiUsersSlash
    /\ Len(logs) = 4
    /\ logs[1].request_id = 1 /\ logs[2].request_id = 2
    /\ logs[3].request_id = 2 /\ logs[4].request_id = 1

(***************************************************************************)
(* The readiness state of app/core/status.py: coroutines calling           *)
(* check_system_health (through the readiness endpoints) and warmup (as    *)
(* the lifespan of main.py does) on the one system_status object.  A       *)
(* coroutine runs alone from one await to the next; the only suspensions   *)
(* are the asyncio.sleep calls inside the four component checks.           *)
(***************************************************************************)
MaxCalls == 2

all_systems_ready(self) ==
    (\A c \in DOMAIN self.components : self.components[c]) /\ self.initialized

get_status_report(self) ==
    [ ready |-> all_systems_ready(self),
      initialized |-> self.initialized,
      components |-> self.components ]

\* get_readiness_status and the answer of /health/readiness for the report
\* check_system_health returned
readiness_check(status_report) ==
    IF status_report.ready
    THEN [status_code |-> 200, details |-> status_report]
    ELSE [status_code |-> 503, details |-> status_report]

HealthInit ==
    /\ settings = Settings(FALSE, KeyUnset, <<>>, FALSE, <<>>, <<>>, TRUE, FALSE)
    /\ IdleRequest
    /\ unit = NoUnit
    /\ system_status = SystemStatus__init__
    /\ tasks \in [1..MaxCalls -> { [kind |-> kind, pc |-> "called", result |-> <<>>] :
                                      kind \in {"readiness_check", "warmup"} }]

\* check_system_health up to its first suspension: the report at once when
\* initialized, else warmup, which resets the status and runs into the sleep
\* of check_database_connection
CheckSystemHealth(t) ==
    /\ tasks[t].kind = "readiness_check"
    /\ tasks[t].pc = "called"
    /\ IF system_status.initialized
       THEN /\ tasks' = [tasks EXCEPT
                            ![t].pc = "done",
                            ![t].result = <<readiness_check(get_status_report(system_status))>>]
            /\ UNCHANGED system_status
       ELSE /\ system_status' = SystemStatus__init__
            /\ tasks' = [tasks EXCEPT ![t].pc = "database"]
    /\ UNCHANGED << settings, request, scope_path, stream, replay, state, pc, response, received,
                    returned, calls, entered, path_seen, logs, log_ctx, handler_seen, uuids,
                    unit >>

\* warmup called on its own, up to its first suspension
Warmup(t) ==
    /\ tasks[t].kind = "warmup"
    /\ tasks[t].pc = "called"
    /\ system_status' = SystemStatus__init__
    /\ tasks' = [tasks EXCEPT ![t].pc = "database"]
    /\ UNCHANGED << settings, request, scope_path, stream, replay, state, pc, response, received,
                    returned, calls, entered, path_seen, logs, log_ctx, handler_seen, uuids,
                    unit >>

\* warmup resumed when the check it awaits returns True: the result goes
\* into the components of the status as it is by then; after the first three
\* checks warmup runs into the sleep of the next one, after the last it sets
\* initialized and returns, and check_system_health returns its report
WarmupResume(t) ==
    /\ tasks[t].pc \in Components
    /\ LET order == <<"database", "cache", "local_cache", "external_services">>
           i == CHOOSE k \in DOMAIN order : order[k] = tasks[t].pc
           checked == [system_status EXCEPT !.components[tasks[t].pc] = TRUE]
           warmed == [checked EXCEPT !.initialized = TRUE]
       IN  IF i < Len(order)
           THEN /\ system_status' = checked
                /\ tasks' = [tasks EXCEPT ![t].pc = order[i + 1]]
           ELSE /\ system_status' = warmed
                /\ tasks' = [tasks EXCEPT
                                ![t].pc = "done",
                                ![t].result =
                                    IF tasks[t].kind = "warmup"
                                    THEN <<all_systems_ready(warmed)>>
                                    ELSE <<readiness_check(get_status_report(warmed))>>]
    /\ UNCHANGED << settings, request, scope_path, stream, replay, state, pc, response, received,
                    returned, calls, entered, path_seen, logs, log_ctx, handler_seen, uuids,
                    unit >>

HealthNext ==
    \E t \in DOMAIN tasks :
        \/ CheckSystemHealth(t)
        \/ Warmup(t)
        \/ WarmupResume(t)

HealthSpec == HealthInit /\ [][HealthNext]_vars

(***************************************************************************)
(* C30: every component check succeeding, each call of                     *)
(* check_system_health that returns reports ready = true, however the      *)
(* calls of check_system_health and warmup interleave, and the readiness   *)
(* endpoint answers 200, never 503.                                        *)
(***************************************************************************)
C30_ReadyWhenAllChecksSucceed ==
    \A t \in DOMAIN tasks :
        (tasks[t].kind = "readiness_check" /\ tasks[t].pc = "done") =>
            /\ tasks[t].result[1].details.ready
            /\ tasks[t].result[1].status_code = 200

====
